---------------------------- MODULE Spec2Model ----------------------------
(***************************************************************************)
(* A model of the emergency dispatch core:                                 *)
(*   - BidirectionalDijkstra.find_shortest_path  (emergency_route_finder)  *)
(*   - HospitalRatingSystem, the SQLite rating ledger                      *)
(*   - EmergencyResponseSystem.handle_accident                             *)
(* Each part has its own specification over the shared variable list; the *)
(* variables of the other parts keep their initial value.                  *)
(***************************************************************************)
EXTENDS Integers, Sequences, FiniteSets, TLC

(***************************************************************************)
(* Bounds of the model.                                                    *)
(***************************************************************************)
NumNodes == 4
MaxEdges == 4
HeavyLen == 4
NumProcs == 2
MaxOps == 3
MaxCandidates == 3
MaxPriorCalls == 1
MaxRouteCalls == 3
MaxLimit == 2
MaxTermEdges == 2

(***************************************************************************)
(* Values shared by the parts.                                             *)
(***************************************************************************)
\* Python's None, for a node id and a predecessor.
None == -1
\* None in place of a path: no returned path is empty.
NoPath == <<>>
\* float('inf')
Inf == 1000000

Min2(a, b) == IF a <= b THEN a ELSE b
Max2(a, b) == IF a >= b THEN a ELSE b

VARIABLES
    \* ---- find_shortest_path ----
    graph,            \* [<<u, v>> -> length] over the edges of the graph
    source, target,
    forward_dist, forward_prev, forward_heap, forward_visited,
    backward_dist, backward_prev, backward_heap, backward_visited,
    meeting_point, min_total_dist,
    pathPc,           \* position in find_shortest_path
    path, distance,   \* the returned tuple
    \* ---- HospitalRatingSystem ----
    db,               \* the committed database: hospitals, case_history,
                      \* rating_history
    wr,               \* the uncommitted database of the connection that
                      \* holds the write lock
    lock,             \* the caller whose connection holds the write lock, or 0
    call,             \* per caller: the call in progress and its locals
    ops,              \* calls started so far
    \* ---- EmergencyResponseSystem ----
    use_t_nagar_24x7, \* the constructor's flag
    hospitals,        \* what find_nearest_hospitals_with_routes returned
    response,         \* what handle_accident returned
    \* ---- EmergencyRouteFinder ----
    graph_cache,      \* self.graph_cache: cache_key -> graph object
    next_graph,       \* the next graph object the provider builds
    rcall,            \* per caller: the route finder call in progress
    rops,             \* route finder calls started so far
    \* ---- the read queries of HospitalRatingSystem ----
    view              \* what get_hospital_rating or get_top_hospitals returned

pathVars == <<graph, source, target,
              forward_dist, forward_prev, forward_heap, forward_visited,
              backward_dist, backward_prev, backward_heap, backward_visited,
              meeting_point, min_total_dist, pathPc, path, distance>>

storeVars == <<db, wr, lock, call, ops>>

dispatchVars == <<use_t_nagar_24x7, hospitals, response>>

finderVars == <<graph_cache, next_graph, rcall, rops>>

queryVars == <<view>>

vars == <<pathVars, storeVars, dispatchVars, finderVars, queryVars>>

\* What the path search leaves alone, and what the rating store does.
outsidePath == <<storeVars, dispatchVars, finderVars, queryVars>>
outsideStore == <<pathVars, dispatchVars, finderVars, queryVars>>
outsideFinder == <<pathVars, storeVars, dispatchVars, queryVars>>

(***************************************************************************)
(* The road graph: node ids 0 .. NumNodes-1, at most MaxEdges directed     *)
(* edges, each with a 'length' of 1 or HeavyLen.  Self loops are left out: *)
(* the search skips a neighbour that is already visited, and the node      *)
(* being expanded is.                                                      *)
(***************************************************************************)
Nodes == 0 .. (NumNodes - 1)
Lengths == {1, HeavyLen}
Pairs == {e \in Nodes \X Nodes : e[1] # e[2]}
EdgeSets == {E \in SUBSET Pairs : Cardinality(E) <= MaxEdges}
Graphs == UNION {[E -> Lengths] : E \in EdgeSets}

\* self.graph[n].items(): the successors of n, in ascending id order.
Successors(g, n) == {v \in Nodes : <<n, v>> \in DOMAIN g}
\* self.graph.predecessors(n)
Predecessors(g, n) == {u \in Nodes : <<u, n>> \in DOMAIN g}

RECURSIVE SetToSeq(_)
SetToSeq(S) ==
    IF S = {} THEN <<>>
    ELSE LET m == CHOOSE x \in S : \A y \in S : x <= y
         IN <<m>> \o SetToSeq(S \ {m})

\* heappop on a heap of (dist, node) tuples: the least tuple.
HeapMin(h) ==
    CHOOSE x \in h : \A y \in h :
        x[1] < y[1] \/ (x[1] = y[1] /\ x[2] <= y[2])

\* Python truth value of a node id or None.
Truthy(x) == x # None /\ x # 0

(***************************************************************************)
(* One expansion loop (lines 74-91 forward, 108-126 backward), over the    *)
(* neighbours ns of node with tentative distance d.  st carries the maps   *)
(* of the searching direction and the meeting point; other is the dist map *)
(* of the opposite direction; len(n) is the length of the edge to or from  *)
(* neighbour n.                                                            *)
(***************************************************************************)
RECURSIVE Expand(_, _, _, _, _, _, _)
Expand(ns, node, d, st, visited, other, len) ==
    IF ns = <<>> THEN st
    ELSE
      LET nb == Head(ns)
          new_dist == d + len[nb]
          improves == nb \notin DOMAIN st.dist \/ new_dist < st.dist[nb]
          st1 == IF improves
                 THEN [st EXCEPT !.dist = (nb :> new_dist) @@ st.dist,
                                 !.prev = (nb :> node) @@ st.prev,
                                 !.heap = st.heap \cup {<<new_dist, nb>>}]
                 ELSE st
          total_dist == new_dist + other[nb]
          st2 == IF nb \in DOMAIN other /\ total_dist < st1.best
                 THEN [st1 EXCEPT !.best = total_dist, !.meet = nb]
                 ELSE st1
      IN IF nb \in visited
         THEN Expand(Tail(ns), node, d, st, visited, other, len)
         ELSE Expand(Tail(ns), node, d, st2, visited, other, len)

\* Faulty variant: the total at the popped node is taken without the distance
\* of the other direction.
MeetAtPop_OwnDistanceOnly(node, d, other, best, meet) ==
    IF node \in DOMAIN other /\ d < best
    THEN <<d, node>>
    ELSE <<best, meet>>

\* lines 66-71 and 100-105: the popped node against the other direction.
MeetAtPop(node, d, other, best, meet) ==
    IF node \in DOMAIN other /\ d + other[node] < best
    THEN <<d + other[node], node>>
    ELSE <<best, meet>>

RECURSIVE ForwardPath_NotReversed(_, _)
\* Faulty variant: forward_path.reverse() left out.
ForwardPath_NotReversed(prev, node) ==
    IF node = None THEN <<>>
    ELSE <<node>> \o
         ForwardPath_NotReversed(prev,
                                 IF node \in DOMAIN prev THEN prev[node] ELSE None)

\* lines 134-139: forward_prev walked from the meeting point, reversed.
RECURSIVE ForwardPath(_, _)
ForwardPath(prev, node) ==
    IF node = None THEN <<>>
    ELSE ForwardPath(prev, IF node \in DOMAIN prev THEN prev[node] ELSE None)
         \o <<node>>

\* lines 142-146: backward_prev walked from the node after the meeting point.
RECURSIVE BackwardPath(_, _)
BackwardPath(prev, node) ==
    IF node = None THEN <<>>
    ELSE <<node>> \o
         BackwardPath(prev, IF node \in DOMAIN prev THEN prev[node] ELSE None)

PathInit ==
    /\ graph \in Graphs
    /\ source \in Nodes
    /\ target \in Nodes
    /\ forward_dist = <<>> /\ forward_prev = <<>>
    /\ forward_heap = {} /\ forward_visited = {}
    /\ backward_dist = <<>> /\ backward_prev = <<>>
    /\ backward_heap = {} /\ backward_visited = {}
    /\ meeting_point = None /\ min_total_dist = Inf
    /\ pathPc = "start"
    /\ path = NoPath /\ distance = Inf

\* Faulty variant: no test of source = target, the search starts.
ShortCircuit_StartsSearch ==
    /\ UNCHANGED outsidePath
    /\ pathPc = "start"
    /\ source = target
    /\ forward_dist' = (source :> 0)
    /\ forward_prev' = (source :> None)
    /\ forward_heap' = {<<0, source>>}
    /\ backward_dist' = (target :> 0)
    /\ backward_prev' = (target :> None)
    /\ backward_heap' = {<<0, target>>}
    /\ pathPc' = "fwd"
    /\ UNCHANGED <<graph, source, target, forward_visited, backward_visited,
                   meeting_point, min_total_dist, path, distance>>

\* lines 38-39
ShortCircuit ==
    /\ UNCHANGED outsidePath
    /\ pathPc = "start"
    /\ source = target
    /\ pathPc' = "done"
    /\ path' = <<source>>
    /\ distance' = 0
    /\ UNCHANGED <<graph, source, target,
                   forward_dist, forward_prev, forward_heap, forward_visited,
                   backward_dist, backward_prev, backward_heap,
                   backward_visited, meeting_point, min_total_dist>>

\* Faulty variant: the backward search is prepared by reversing the graph in
\* place.
StartSearch_ReversesGraph ==
    /\ UNCHANGED outsidePath
    /\ pathPc = "start"
    /\ source # target
    /\ graph' = [e \in {<<d[2], d[1]>> : d \in DOMAIN graph} |-> graph[<<e[2], e[1]>>]]
    /\ forward_dist' = (source :> 0)
    /\ forward_prev' = (source :> None)
    /\ forward_heap' = {<<0, source>>}
    /\ backward_dist' = (target :> 0)
    /\ backward_prev' = (target :> None)
    /\ backward_heap' = {<<0, target>>}
    /\ pathPc' = "fwd"
    /\ UNCHANGED <<source, target, forward_visited, backward_visited,
                   meeting_point, min_total_dist, path, distance>>

\* lines 41-55
StartSearch ==
    /\ UNCHANGED outsidePath
    /\ pathPc = "start"
    /\ source # target
    /\ forward_dist' = (source :> 0)
    /\ forward_prev' = (source :> None)
    /\ forward_heap' = {<<0, source>>}
    /\ backward_dist' = (target :> 0)
    /\ backward_prev' = (target :> None)
    /\ backward_heap' = {<<0, target>>}
    /\ pathPc' = "fwd"
    /\ UNCHANGED <<graph, source, target, forward_visited, backward_visited,
                   meeting_point, min_total_dist, path, distance>>

\* Faulty variant: the loop test is left out ("while True"), the loop goes on
\* over two empty heaps.
LoopExit_LoopsOn ==
    /\ UNCHANGED outsidePath
    /\ pathPc = "fwd"
    /\ forward_heap = {} /\ backward_heap = {}
    /\ pathPc' = "bwd"
    /\ UNCHANGED <<graph, source, target, path, distance,
                   forward_dist, forward_prev, forward_heap, forward_visited,
                   backward_dist, backward_prev, backward_heap,
                   backward_visited, meeting_point, min_total_dist>>

\* line 58 false, line 151
LoopExit ==
    /\ UNCHANGED outsidePath
    /\ pathPc = "fwd"
    /\ forward_heap = {} /\ backward_heap = {}
    /\ pathPc' = "done"
    /\ path' = NoPath
    /\ distance' = Inf
    /\ UNCHANGED <<graph, source, target,
                   forward_dist, forward_prev, forward_heap, forward_visited,
                   backward_dist, backward_prev, backward_heap,
                   backward_visited, meeting_point, min_total_dist>>

\* lines 58-91: the loop test and the forward step.  A popped node that is
\* already visited takes 'continue': back to the loop test, past the
\* backward step and the termination test.
ForwardStep ==
    /\ UNCHANGED outsidePath
    /\ pathPc = "fwd"
    /\ forward_heap # {} \/ backward_heap # {}
    /\ IF forward_heap = {}
       THEN /\ pathPc' = "bwd"
            /\ UNCHANGED <<forward_dist, forward_prev, forward_heap,
                           forward_visited, meeting_point, min_total_dist>>
       ELSE LET top == HeapMin(forward_heap)
                dist_f == top[1]
                node_f == top[2]
            IN IF node_f \in forward_visited
               THEN /\ forward_heap' = forward_heap \ {top}
                    /\ pathPc' = "fwd"
                    /\ UNCHANGED <<forward_dist, forward_prev, forward_visited,
                                   meeting_point, min_total_dist>>
               ELSE LET m == MeetAtPop(node_f, dist_f, backward_dist,
                                       min_total_dist, meeting_point)
                        st == Expand(SetToSeq(Successors(graph, node_f)),
                                     node_f, dist_f,
                                     [dist |-> forward_dist,
                                      prev |-> forward_prev,
                                      heap |-> forward_heap \ {top},
                                      best |-> m[1], meet |-> m[2]],
                                     forward_visited \cup {node_f},
                                     backward_dist,
                                     [n \in Successors(graph, node_f) |->
                                         graph[<<node_f, n>>]])
                    IN /\ forward_visited' = forward_visited \cup {node_f}
                       /\ forward_dist' = st.dist
                       /\ forward_prev' = st.prev
                       /\ forward_heap' = st.heap
                       /\ min_total_dist' = st.best
                       /\ meeting_point' = st.meet
                       /\ pathPc' = "bwd"
    /\ UNCHANGED <<graph, source, target, backward_dist, backward_prev,
                   backward_heap, backward_visited, path, distance>>

\* lines 93-126: the backward step, over incoming edges.
BackwardStep ==
    /\ UNCHANGED outsidePath
    /\ pathPc = "bwd"
    /\ IF backward_heap = {}
       THEN /\ pathPc' = "check"
            /\ UNCHANGED <<backward_dist, backward_prev, backward_heap,
                           backward_visited, meeting_point, min_total_dist>>
       ELSE LET top == HeapMin(backward_heap)
                dist_b == top[1]
                node_b == top[2]
            IN IF node_b \in backward_visited
               THEN /\ backward_heap' = backward_heap \ {top}
                    /\ pathPc' = "fwd"
                    /\ UNCHANGED <<backward_dist, backward_prev,
                                   backward_visited, meeting_point,
                                   min_total_dist>>
               ELSE LET m == MeetAtPop(node_b, dist_b, forward_dist,
                                       min_total_dist, meeting_point)
                        st == Expand(SetToSeq(Predecessors(graph, node_b)),
                                     node_b, dist_b,
                                     [dist |-> backward_dist,
                                      prev |-> backward_prev,
                                      heap |-> backward_heap \ {top},
                                      best |-> m[1], meet |-> m[2]],
                                     backward_visited \cup {node_b},
                                     forward_dist,
                                     [n \in Predecessors(graph, node_b) |->
                                         graph[<<n, node_b>>]])
                    IN /\ backward_visited' = backward_visited \cup {node_b}
                       /\ backward_dist' = st.dist
                       /\ backward_prev' = st.prev
                       /\ backward_heap' = st.heap
                       /\ min_total_dist' = st.best
                       /\ meeting_point' = st.meet
                       /\ pathPc' = "check"
    /\ UNCHANGED <<graph, source, target, forward_dist, forward_prev,
                   forward_heap, forward_visited, path, distance>>

\* line 129: the test that ends the search.
FoundMeeting == Truthy(meeting_point) /\ min_total_dist < Inf

\* lines 128-149
CheckMeeting ==
    /\ UNCHANGED outsidePath
    /\ pathPc = "check"
    /\ IF FoundMeeting
       THEN /\ path' = ForwardPath(forward_prev, meeting_point)
                       \o BackwardPath(backward_prev,
                                       backward_prev[meeting_point])
            /\ distance' = min_total_dist
            /\ pathPc' = "done"
       ELSE /\ pathPc' = "fwd"
            /\ UNCHANGED <<path, distance>>
    /\ UNCHANGED <<graph, source, target,
                   forward_dist, forward_prev, forward_heap, forward_visited,
                   backward_dist, backward_prev, backward_heap,
                   backward_visited, meeting_point, min_total_dist>>

PathNext ==
    \/ ShortCircuit
    \/ StartSearch
    \/ LoopExit
    \/ ForwardStep
    \/ BackwardStep
    \/ CheckMeeting


(***************************************************************************)
(* The reference: single-source shortest distances by relaxation.          *)
(***************************************************************************)
RelaxOnce(g, d) ==
    [n \in Nodes |->
        LET via == {d[u] + g[<<u, n>>] : u \in {x \in Predecessors(g, n) : d[x] < Inf}}
        IN IF via = {} THEN d[n]
           ELSE Min2(d[n], CHOOSE m \in via : \A k \in via : m <= k)]

RECURSIVE RelaxTimes(_, _, _)
RelaxTimes(g, d, k) == IF k = 0 THEN d ELSE RelaxTimes(g, RelaxOnce(g, d), k - 1)

ReferenceDistance(g, s, t) ==
    RelaxTimes(g, [n \in Nodes |-> IF n = s THEN 0 ELSE Inf], NumNodes)[t]

\* C1: whenever the target is reachable from the source, the distance
\* find_shortest_path returns is the reference shortest distance.
C1_SameDistanceAsReference ==
    (pathPc = "done" /\ ReferenceDistance(graph, source, target) < Inf)
        => distance = ReferenceDistance(graph, source, target)

(***************************************************************************)
(* HospitalRatingSystem: the SQLite ledger.                                *)
(*                                                                         *)
(* Ratings are kept in hundredths of a star (2.5 stars = 250), so that a   *)
(* rating that is no half star can be told from one that is.  Arithmetic   *)
(* on averages is exact (on fractions), where the code computes in floats. *)
(* One field, address, stands for the metadata columns address, latitude,  *)
(* longitude and phone, which one INSERT writes together.  The columns     *)
(* accident_id, treatment_quality_notes and the timestamps are never read  *)
(* back by the code modelled here and are left out.                        *)
(***************************************************************************)
Procs == 1 .. NumProcs
Names == {"Apollo", "Beacon"}
Addresses == {"", "12 Main Rd"}
Outcomes == {"successful", "partial", "unsuccessful"}
Qualities == {0, 100}
ResponseTimes == {0, 150}
\* new_rating values an administrator passes, in hundredths of a star.
ManualRatings == {250, 255, 700}

\* current_rating REAL DEFAULT 2.5
DefaultRating == 250

EmptyDb == [hospitals |-> <<>>, case_history |-> <<>>, rating_history |-> <<>>]

\* SELECT id FROM hospitals WHERE name = ?  (0 stands for "no row": ids
\* start at 1, AUTOINCREMENT, and no row is ever deleted)
SelectId(d, name) ==
    IF \E i \in 1 .. Len(d.hospitals) : d.hospitals[i].name = name
    THEN CHOOSE i \in 1 .. Len(d.hospitals) : d.hospitals[i].name = name
    ELSE 0

NewHospitalRow(name, address) ==
    [name |-> name, address |-> address,
     current_rating |-> DefaultRating, total_cases |-> 0,
     successful_outcomes |-> 0, total_response_time_minutes |-> 0]

\* Faulty variant: INSERT OR REPLACE, which writes the row of an existing name anew.
InsertOrReplaceHospital(d, name, address) ==
    IF SelectId(d, name) # 0
    THEN [d EXCEPT !.hospitals[SelectId(d, name)] = NewHospitalRow(name, address)]
    ELSE [d EXCEPT !.hospitals = Append(@, NewHospitalRow(name, address))]

\* Faulty variant: a plain INSERT into a table whose name column is not UNIQUE.
InsertHospital_NotUnique(d, name, address) ==
    [d EXCEPT !.hospitals = Append(@, NewHospitalRow(name, address))]

\* INSERT OR IGNORE INTO hospitals (name is UNIQUE)
InsertOrIgnoreHospital(d, name, address) ==
    IF SelectId(d, name) # 0 THEN d
    ELSE [d EXCEPT !.hospitals = Append(@, NewHospitalRow(name, address))]

\* INSERT INTO case_history
InsertCase(d, hid, outcome, quality, minutes) ==
    [d EXCEPT !.case_history =
        Append(@, [hospital_id |-> hid, patient_outcome |-> outcome,
                   quality_score |-> quality,
                   response_time_minutes |-> minutes])]

\* Faulty variant: a partial outcome counted as successful.
UpdateStatistics_PartialCounts(d, hid, outcome, minutes) ==
    LET is_successful == IF outcome # "unsuccessful" THEN 1 ELSE 0
    IN [d EXCEPT !.hospitals[hid] =
          [@ EXCEPT !.total_cases = @ + 1,
                    !.successful_outcomes = @ + is_successful,
                    !.total_response_time_minutes = @ + minutes]]

\* Faulty variant: total_cases is left as it was.
UpdateStatistics_SkipsTotal(d, hid, outcome, minutes) ==
    LET is_successful == IF outcome = "successful" THEN 1 ELSE 0
    IN [d EXCEPT !.hospitals[hid] =
          [@ EXCEPT !.successful_outcomes = @ + is_successful,
                    !.total_response_time_minutes = @ + minutes]]

\* UPDATE hospitals SET total_cases = total_cases + 1, ...
UpdateStatistics(d, hid, outcome, minutes) ==
    LET is_successful == IF outcome = "successful" THEN 1 ELSE 0
    IN [d EXCEPT !.hospitals[hid] =
          [@ EXCEPT !.total_cases = @ + 1,
                    !.successful_outcomes = @ + is_successful,
                    !.total_response_time_minutes = @ + minutes]]

RECURSIVE SumOver(_, _, _)
\* the sum of field f ("quality", "response" or "count") over the
\* case_history rows of hospital hid
SumOver(rows, hid, f) ==
    IF rows = <<>> THEN 0
    ELSE (IF Head(rows).hospital_id # hid THEN 0
          ELSE IF f = "quality" THEN Head(rows).quality_score
          ELSE IF f = "response" THEN Head(rows).response_time_minutes
          ELSE 1)
         + SumOver(Tail(rows), hid, f)

\* round(): Python rounds a tie to the even integer.
RoundHalfEven(num, den) ==
    LET q == num \div den
        r == num % den
    IN IF 2 * r < den THEN q
       ELSE IF 2 * r > den THEN q + 1
       ELSE IF q % 2 = 0 THEN q ELSE q + 1

\* Faulty variant: round(new_rating, 1), to a tenth of a star.
CalculateNewRating_RoundToTenth(total_cases, successful_outcomes, qn, qd, rn, rd) ==
    IF total_cases = 0 THEN DefaultRating
    ELSE LET x == Max2(0, Min2(600 * rd, 600 * rd - 5 * rn))
             num == 4 * successful_outcomes * 200 * qd * 240 * rd
                    + 7 * qn * total_cases * 240 * rd
                    + x * total_cases * 200 * qd
             den == total_cases * 200 * qd * 240 * rd
         IN 10 * RoundHalfEven(5 * num, den)

\* HospitalPerformance.calculate_new_rating, on the averages qn/qd and
\* rn/rd.  overall_score * 5 * 2 is the fraction
\*   4 s/n + 7 qn / (200 qd) + x / (240 rd),
\* x / (6 rd) the response score: 100 - (rn/rd) / 60 * 50 clamped to 0..100.
CalculateNewRating(total_cases, successful_outcomes, qn, qd, rn, rd) ==
    IF total_cases = 0 THEN DefaultRating
    ELSE LET x == Max2(0, Min2(600 * rd, 600 * rd - 5 * rn))
             num == 4 * successful_outcomes * 200 * qd * 240 * rd
                    + 7 * qn * total_cases * 240 * rd
                    + x * total_cases * 200 * qd
             den == total_cases * 200 * qd * 240 * rd
         IN 50 * RoundHalfEven(num, den)

\* lines 241-252: the two averages as fractions <<numerator, denominator>>.
\* AVG() is NULL over no row; "x if x else default" also takes the default
\* when the average is 0.0.
AvgQuality(d, hid) ==
    LET sum == SumOver(d.case_history, hid, "quality")
        cnt == SumOver(d.case_history, hid, "count")
    IN IF cnt = 0 \/ sum = 0 THEN <<50, 1>> ELSE <<sum, cnt>>

AvgResponseTime(d, hid) ==
    LET sum == SumOver(d.case_history, hid, "response")
        cnt == SumOver(d.case_history, hid, "count")
    IN IF cnt = 0 \/ sum = 0 THEN <<60, 1>> ELSE <<sum, cnt>>

\* Faulty variant: a rating that was last set by hand is kept.
RecomputedRating_KeepsOverride(d, hid) ==
    LET h == d.hospitals[hid]
        q == AvgQuality(d, hid)
        r == AvgResponseTime(d, hid)
        mine == {k \in 1 .. Len(d.rating_history) : d.rating_history[k].hospital_id = hid}
        last == CHOOSE k \in mine : \A j \in mine : j <= k
    IN IF mine # {} /\ d.rating_history[last].reason = "Manual update"
       THEN h.current_rating
       ELSE CalculateNewRating(h.total_cases, h.successful_outcomes,
                               q[1], q[2], r[1], r[2])

\* lines 226-265: the rating _update_hospital_rating computes for hid.
RecomputedRating(d, hid) ==
    LET h == d.hospitals[hid]
        q == AvgQuality(d, hid)
        r == AvgResponseTime(d, hid)
    IN CalculateNewRating(h.total_cases, h.successful_outcomes,
                          q[1], q[2], r[1], r[2])

\* UPDATE hospitals SET current_rating = ? WHERE id = ?
SetRating(d, hid, rating) ==
    [d EXCEPT !.hospitals[hid].current_rating = rating]

\* Faulty variant: the new row takes the place of the latest one.
InsertRatingHistory_ReplacesLast(d, hid, old, new, reason) ==
    [d EXCEPT !.rating_history =
        Append(IF @ = <<>> THEN @ ELSE SubSeq(@, 1, Len(@) - 1),
               [hospital_id |-> hid, old_rating |-> old,
                new_rating |-> new, reason |-> reason])]

\* INSERT INTO rating_history
InsertRatingHistory(d, hid, old, new, reason) ==
    [d EXCEPT !.rating_history =
        Append(@, [hospital_id |-> hid, old_rating |-> old,
                   new_rating |-> new, reason |-> reason])]

Abs(x) == IF x < 0 THEN -x ELSE x

\* Faulty variant: every recomputation is written to rating_history.
SignificantChange_Always(old, new) == TRUE

\* line 276: abs(new_rating - old_rating) >= 0.1
SignificantChange(old, new) == Abs(new - old) >= 10

IdleCall ==
    [op |-> "none", pc |-> "idle", name |-> "", address |-> "",
     outcome |-> "", quality |-> 0, response |-> 0, new_rating |-> 0,
     hospital_id |-> 0, old_rating |-> 0, calc_rating |-> 0,
     result |-> "none", ret_id |-> 0, failed_at |-> "", pre |-> EmptyDb]

\* The call of c returns result (and id, for register_hospital): its locals
\* go with the frame; the arguments and the database before the call stay
\* on record, and failed_at names the statement that raised, if one did.
Returned(c, result, id) ==
    [c EXCEPT !.pc = "done", !.result = result, !.ret_id = id,
              !.hospital_id = 0, !.old_rating = 0, !.calc_rating = 0]

\* no query has returned
NoView == [returned |-> FALSE]

StoreInit ==
    /\ db = EmptyDb
    /\ wr = EmptyDb
    /\ lock = 0
    /\ call = [p \in Procs |-> IdleCall]
    /\ ops = 0
    /\ view = NoView

CanStart(p) == call[p].pc \in {"idle", "done"} /\ ops < MaxOps

\* register_hospital(name, address, ...) called
StartRegister(p) ==
    /\ CanStart(p)
    /\ \E name \in Names, address \in Addresses :
         call' = [call EXCEPT ![p] =
            [IdleCall EXCEPT !.op = "register", !.pc = "reg_insert",
                             !.name = name, !.address = address,
                             !.pre = db]]
    /\ ops' = ops + 1
    /\ UNCHANGED <<db, wr, lock>>
    /\ UNCHANGED outsideStore

\* record_case_outcome(hospital_name, _, patient_outcome, quality_score,
\* response_time_minutes) called
StartRecord(p) ==
    /\ CanStart(p)
    /\ \E name \in Names, outcome \in Outcomes,
          quality \in Qualities, minutes \in ResponseTimes :
         call' = [call EXCEPT ![p] =
            [IdleCall EXCEPT !.op = "record", !.pc = "lookup",
                             !.name = name, !.outcome = outcome,
                             !.quality = quality, !.response = minutes,
                             !.pre = db]]
    /\ ops' = ops + 1
    /\ UNCHANGED <<db, wr, lock>>
    /\ UNCHANGED outsideStore

\* update_rating_manually(hospital_name, new_rating) called
StartManual(p) ==
    /\ CanStart(p)
    /\ \E name \in Names, rating \in ManualRatings :
         call' = [call EXCEPT ![p] =
            [IdleCall EXCEPT !.op = "manual", !.pc = "lookup",
                             !.name = name, !.new_rating = rating,
                             !.pre = db]]
    /\ ops' = ops + 1
    /\ UNCHANGED <<db, wr, lock>>
    /\ UNCHANGED outsideStore

\* Faulty variant: update_rating_manually registers a name it does not find,
\* as record_case_outcome does, and goes on.
Lookup_RegistersUnknown(p) ==
    /\ call[p].pc = "lookup"
    /\ LET id == SelectId(db, call[p].name)
           c == call[p]
       IN /\ call' = [call EXCEPT ![p] =
                [c EXCEPT !.hospital_id = IF id # 0 THEN id ELSE Len(db.hospitals) + 1,
                          !.pc = IF c.op = "record"
                                 THEN (IF id # 0 THEN "tx_insert" ELSE "reg_insert")
                                 ELSE "man_update"]]
          /\ db' = IF id = 0 /\ c.op = "manual"
                   THEN InsertOrIgnoreHospital(db, c.name, "")
                   ELSE db
    /\ UNCHANGED <<wr, lock, ops>>
    /\ UNCHANGED outsideStore

\* get_hospital_id, lines 174-176 and 378-380: a read of the committed
\* database on a connection of its own.
Lookup(p) ==
    /\ call[p].pc = "lookup"
    /\ LET id == SelectId(db, call[p].name)
           c == call[p]
       IN call' = [call EXCEPT ![p] =
             IF id # 0
             THEN [c EXCEPT !.hospital_id = id,
                            !.pc = IF c.op = "record" THEN "tx_insert"
                                   ELSE "man_update"]
             ELSE IF c.op = "record"
             THEN [c EXCEPT !.pc = "reg_insert"]
             ELSE Returned(c, "false", 0)]
    /\ UNCHANGED <<db, wr, lock, ops>>
    /\ UNCHANGED outsideStore

\* register_hospital, lines 116-126: INSERT OR IGNORE, which opens the
\* write transaction of this connection.  record_case_outcome registers
\* with the name alone.
RegInsert(p) ==
    /\ call[p].pc = "reg_insert"
    /\ lock = 0
    /\ lock' = p
    /\ wr' = InsertOrIgnoreHospital(db, call[p].name, call[p].address)
    /\ call' = [call EXCEPT ![p].pc = "reg_commit"]
    /\ UNCHANGED <<db, ops>>
    /\ UNCHANGED outsideStore

\* register_hospital, lines 128-133: SELECT id, commit, return; then
\* lines 178-179 of record_case_outcome when it is the caller.
RegCommit(p) ==
    /\ call[p].pc = "reg_commit"
    /\ db' = wr
    /\ lock' = 0
    /\ LET id == SelectId(wr, call[p].name)
       IN call' = [call EXCEPT ![p] =
             IF @.op = "register" THEN Returned(@, "id", id)
             ELSE IF id = 0 THEN Returned(@, "false", 0)
             ELSE [@ EXCEPT !.pc = "tx_insert", !.hospital_id = id]]
    /\ UNCHANGED <<wr, ops>>
    /\ UNCHANGED outsideStore

\* lines 186-194: INSERT INTO case_history, which opens the write
\* transaction.
TxInsert(p) ==
    /\ call[p].pc = "tx_insert"
    /\ lock = 0
    /\ lock' = p
    /\ wr' = InsertCase(db, call[p].hospital_id, call[p].outcome,
                        call[p].quality, call[p].response)
    /\ call' = [call EXCEPT ![p].pc = "tx_update"]
    /\ UNCHANGED <<db, ops>>
    /\ UNCHANGED outsideStore

\* lines 197-209
TxUpdate(p) ==
    /\ call[p].pc = "tx_update"
    /\ wr' = UpdateStatistics(wr, call[p].hospital_id, call[p].outcome,
                              call[p].response)
    /\ call' = [call EXCEPT ![p].pc = "tx_rating"]
    /\ UNCHANGED <<db, lock, ops>>
    /\ UNCHANGED outsideStore

\* _update_hospital_rating, lines 226-273
TxRating(p) ==
    /\ call[p].pc = "tx_rating"
    /\ LET hid == call[p].hospital_id
           new == RecomputedRating(wr, hid)
       IN /\ wr' = SetRating(wr, hid, new)
          /\ call' = [call EXCEPT ![p].pc = "tx_history",
                                  ![p].old_rating =
                                      wr.hospitals[hid].current_rating,
                                  ![p].calc_rating = new]
    /\ UNCHANGED <<db, lock, ops>>
    /\ UNCHANGED outsideStore

\* _update_hospital_rating, lines 276-288
TxHistory(p) ==
    /\ call[p].pc = "tx_history"
    /\ wr' = IF SignificantChange(call[p].old_rating, call[p].calc_rating)
             THEN InsertRatingHistory(wr, call[p].hospital_id,
                                      call[p].old_rating,
                                      call[p].calc_rating, "Updated")
             ELSE wr
    /\ call' = [call EXCEPT ![p].pc = "tx_commit"]
    /\ UNCHANGED <<db, lock, ops>>
    /\ UNCHANGED outsideStore

\* Faulty variant: the failure path commits what the transaction had written.
Rollback_KeepsWork(committed, uncommitted) == uncommitted

\* conn.rollback(): the database after it.
Rollback(committed, uncommitted) == committed

\* conn.commit(): the database after it.
Commit(committed, uncommitted) == uncommitted

\* lines 214-215
TxCommit(p) ==
    /\ call[p].pc = "tx_commit"
    /\ db' = Commit(db, wr)
    /\ lock' = 0
    /\ call' = [call EXCEPT ![p] = Returned(@, "true", 0)]
    /\ UNCHANGED <<wr, ops>>
    /\ UNCHANGED outsideStore

\* lines 216-219: the statement at pc (the insert, the counter update, the
\* rating recomputation, the history insert or the commit) raises.
TxFail(p) ==
    /\ call[p].pc \in {"tx_insert", "tx_update", "tx_rating", "tx_history",
                       "tx_commit"}
    /\ call[p].pc = "tx_insert" => lock = 0
    /\ db' = IF lock = p THEN Rollback(db, wr) ELSE db
    /\ lock' = 0
    /\ call' = [call EXCEPT ![p] =
                  [Returned(@, "false", 0) EXCEPT !.failed_at = call[p].pc]]
    /\ UNCHANGED <<wr, ops>>
    /\ UNCHANGED outsideStore

\* Faulty variant: the manual update writes rating_history only for a change
\* of at least 0.1.
ManUpdate_ThresholdApplied(p) ==
    /\ call[p].pc = "man_update"
    /\ lock = 0
    /\ lock' = p
    /\ LET hid == call[p].hospital_id
           old == db.hospitals[hid].current_rating
           set == SetRating(db, hid, call[p].new_rating)
       IN wr' = IF Abs(call[p].new_rating - old) >= 10
                THEN InsertRatingHistory(set, hid, old, call[p].new_rating,
                                         "Manual update")
                ELSE set
    /\ call' = [call EXCEPT ![p].pc = "man_commit"]
    /\ UNCHANGED <<db, ops>>
    /\ UNCHANGED outsideStore

\* update_rating_manually, lines 387-406: SELECT current_rating, UPDATE,
\* INSERT INTO rating_history.
ManUpdate(p) ==
    /\ call[p].pc = "man_update"
    /\ lock = 0
    /\ lock' = p
    /\ LET hid == call[p].hospital_id
           old == db.hospitals[hid].current_rating
       IN wr' = InsertRatingHistory(SetRating(db, hid, call[p].new_rating),
                                    hid, old, call[p].new_rating,
                                    "Manual update")
    /\ call' = [call EXCEPT ![p].pc = "man_commit"]
    /\ UNCHANGED <<db, ops>>
    /\ UNCHANGED outsideStore

\* lines 408-409
ManCommit(p) ==
    /\ call[p].pc = "man_commit"
    /\ db' = Commit(db, wr)
    /\ lock' = 0
    /\ call' = [call EXCEPT ![p] = Returned(@, "true", 0)]
    /\ UNCHANGED <<wr, ops>>
    /\ UNCHANGED outsideStore

\* lines 410-413
ManFail(p) ==
    /\ call[p].pc \in {"man_update", "man_commit"}
    /\ call[p].pc = "man_update" => lock = 0
    /\ db' = IF lock = p THEN Rollback(db, wr) ELSE db
    /\ lock' = 0
    /\ call' = [call EXCEPT ![p] =
                  [Returned(@, "false", 0) EXCEPT !.failed_at = call[p].pc]]
    /\ UNCHANGED <<wr, ops>>
    /\ UNCHANGED outsideStore

\* sqlite3.connect(db_path) waits 5 seconds (its default timeout) for the
\* write lock another connection holds, then raises OperationalError
\* ("database is locked"): caught at line 216 or 410, False returned.
LockTimeout(p) ==
    /\ call[p].pc \in {"tx_insert", "man_update"}
    /\ lock \notin {0, p}
    /\ call' = [call EXCEPT ![p] =
                  [Returned(@, "false", 0) EXCEPT !.failed_at = "locked"]]
    /\ UNCHANGED <<db, wr, lock, ops>>
    /\ UNCHANGED outsideStore

\* The same in register_hospital, which catches IntegrityError only
\* (line 134): the error leaves register_hospital, and record_case_outcome
\* when it is the caller (line 176 is outside its try).
RegTimeout(p) ==
    /\ call[p].pc = "reg_insert"
    /\ lock \notin {0, p}
    /\ call' = [call EXCEPT ![p] =
                  [Returned(@, "raised", 0) EXCEPT !.failed_at = "locked"]]
    /\ UNCHANGED <<db, wr, lock, ops>>
    /\ UNCHANGED outsideStore

(***************************************************************************)
(* The read queries get_hospital_rating and get_top_hospitals.  Percentages *)
(* and averages are in hundredths, the two decimals round(x, 2) keeps.     *)
(***************************************************************************)
QueryNames == Names \cup {"Cedar"}
Limits == 0 .. MaxLimit

\* round(num / den, 2), in hundredths
Round2(num, den) == RoundHalfEven(100 * num, den)

\* lines 321 and 359: (successful / cases * 100) if cases > 0 else 0.0
SuccessRatePercent(row) ==
    IF row.total_cases > 0
    THEN Round2(100 * row.successful_outcomes, row.total_cases)
    ELSE 0

\* lines 320 and 358: (total_time / cases) if cases > 0 else 0.0
AverageResponseTimeMinutes(row) ==
    IF row.total_cases > 0
    THEN Round2(row.total_response_time_minutes, row.total_cases)
    ELSE 0

\* lines 311-318: AVG(quality_score) or 50.0; AVG is NULL over no row, and
\* "or" also takes 50.0 when the average is 0.0
AverageQualityScore(d, hid) ==
    LET sum == SumOver(d.case_history, hid, "quality")
        cnt == SumOver(d.case_history, hid, "count")
    IN IF cnt = 0 \/ sum = 0 THEN 5000 ELSE Round2(sum, cnt)

\* lines 320-335: the dictionary made of the row the first SELECT returned
\* and of the average the second SELECT returned
RatingView(row, avg_quality) ==
    [found |-> TRUE,
     hospital_name |-> row.name,
     address |-> row.address,
     current_rating |-> row.current_rating,
     total_cases |-> row.total_cases,
     successful_outcomes |-> row.successful_outcomes,
     success_rate_percent |-> SuccessRatePercent(row),
     average_quality_score |-> avg_quality,
     average_response_time_minutes |-> AverageResponseTimeMinutes(row)]

\* get_hospital_rating(hospital_name), lines 290-335, with no commit of
\* another connection between its two SELECTs
HospitalRating(d, name) ==
    IF SelectId(d, name) = 0 THEN [found |-> FALSE]
    ELSE RatingView(d.hospitals[SelectId(d, name)],
                    AverageQualityScore(d, SelectId(d, name)))

\* line 346: WHERE total_cases > 0
Eligible(d) == {i \in 1 .. Len(d.hospitals) : d.hospitals[i].total_cases > 0}

\* Faulty variant: ORDER BY current_rating DESC alone.
OrderedBefore_RatingOnly(a, b) == a.current_rating >= b.current_rating

\* line 347: ORDER BY current_rating DESC, total_cases DESC; row a may come
\* before row b
OrderedBefore(a, b) ==
    \/ a.current_rating > b.current_rating
    \/ a.current_rating = b.current_rating /\ a.total_cases >= b.total_cases

\* The orders in which the SELECT may deliver the eligible rows: rows that
\* are equal in both sort keys come in either order.
SelectOrders(d) ==
    {s \in [1 .. Cardinality(Eligible(d)) -> Eligible(d)] :
        /\ \A i, j \in DOMAIN s : i # j => s[i] # s[j]
        /\ \A i, j \in DOMAIN s :
               i < j => OrderedBefore(d.hospitals[s[i]], d.hospitals[s[j]])}

\* lines 355-370: the dictionary of one row
TopRow(row) ==
    [hospital_name |-> row.name,
     address |-> row.address,
     current_rating |-> row.current_rating,
     total_cases |-> row.total_cases,
     success_rate_percent |-> SuccessRatePercent(row),
     average_response_time_minutes |-> AverageResponseTimeMinutes(row)]

\* LIMIT ? and lines 354-373, on the order the SELECT delivered
TopHospitals(d, order, limit) ==
    [k \in 1 .. Min2(limit, Len(order)) |-> TopRow(d.hospitals[order[k]])]

\* A query is made between two calls, and once.
CanQuery(p) == call[p].pc \in {"idle", "done"} /\ view = NoView

\* get_hospital_rating(hospital_name)
GetHospitalRating(p) ==
    /\ CanQuery(p)
    /\ \E name \in QueryNames :
         view' = [returned |-> TRUE, op |-> "get_hospital_rating",
                  name |-> name, result |-> HospitalRating(db, name)]
    /\ UNCHANGED <<pathVars, storeVars, dispatchVars, finderVars>>

\* get_hospital_rating statement by statement, for a caller on a thread of
\* its own.  The connection is in sqlite3's default mode, in which a SELECT
\* opens no transaction: each of the two SELECTs reads the database as
\* committed when it runs.  Lines 295-309: the first SELECT; without a row
\* the call returns None.  seen keeps the database this SELECT read.
SelectHospitalRow ==
    /\ view = NoView
    /\ \E name \in QueryNames :
         view' = IF SelectId(db, name) = 0
                 THEN [returned |-> TRUE, op |-> "get_hospital_rating",
                       name |-> name, result |-> [found |-> FALSE], seen |-> db]
                 ELSE [returned |-> FALSE, op |-> "get_hospital_rating",
                       name |-> name, hospital_id |-> SelectId(db, name),
                       row |-> db.hospitals[SelectId(db, name)], seen |-> db]
    /\ UNCHANGED <<pathVars, storeVars, dispatchVars, finderVars>>

\* lines 311-335: the second SELECT, and the return
SelectAverageQuality ==
    /\ ~view.returned /\ view # NoView
    /\ view' = [returned |-> TRUE, op |-> "get_hospital_rating",
                name |-> view.name,
                result |-> RatingView(view.row,
                                      AverageQualityScore(db, view.hospital_id)),
                seen |-> view.seen]
    /\ UNCHANGED <<pathVars, storeVars, dispatchVars, finderVars>>

\* get_top_hospitals(limit)
GetTopHospitals(p) ==
    /\ CanQuery(p)
    /\ \E limit \in Limits, order \in SelectOrders(db) :
         view' = [returned |-> TRUE, op |-> "get_top_hospitals",
                  limit |-> limit, result |-> TopHospitals(db, order, limit)]
    /\ UNCHANGED <<pathVars, storeVars, dispatchVars, finderVars>>

(***************************************************************************)
(* EmergencyResponseSystem.handle_accident.                                *)
(*                                                                         *)
(* Route distances are in tenths of a kilometre; a score is a fraction     *)
(* <<numerator, denominator>> in units of 1/10000.  The dataset is the     *)
(* three rows below.                                                       *)
(***************************************************************************)
DatasetNames == Names \cup {"Cedar"}
RouteDistances == {20, 21}

\* the columns ICU_availability and Response_readiness of the dataset
IcuAvailability(name) == IF name \in {"Apollo", "Cedar"} THEN "Y" ELSE "N"
ResponseReadiness(name) ==
    IF name = "Apollo" THEN "high" ELSE IF name = "Beacon" THEN "medium" ELSE "low"

\* One entry of the list find_nearest_hospitals_with_routes returns.
Candidates ==
    [hospital_name : DatasetNames, route_success : BOOLEAN,
     route_distance_km : RouteDistances]

DistinctNames(list) ==
    \A i, j \in 1 .. Len(list) : i # j => list[i].hospital_name # list[j].hospital_name

CandidateLists ==
    {list \in UNION {[1 .. k -> Candidates] : k \in 0 .. MaxCandidates} :
        DistinctNames(list)}

NoResponse == [returned |-> FALSE]

DispatchIdle ==
    /\ use_t_nagar_24x7 = FALSE
    /\ hospitals = <<>>
    /\ response = NoResponse

\* Faulty variant: the candidates whose route failed are kept.
Routed_KeepsAll(list) == list

RECURSIVE Routed(_)
\* line 58: [h for h in hospitals if h.get("route_success")]
Routed(list) ==
    IF list = <<>> THEN <<>>
    ELSE (IF Head(list).route_success THEN <<Head(list)>> ELSE <<>>)
         \o Routed(Tail(list))

RECURSIVE InsertByDistance(_, _)
\* h put into the sorted list after every entry that is not farther
InsertByDistance(sorted, h) ==
    IF sorted = <<>> THEN <<h>>
    ELSE IF Head(sorted).route_distance_km <= h.route_distance_km
         THEN <<Head(sorted)>> \o InsertByDistance(Tail(sorted), h)
         ELSE <<h>> \o sorted

RECURSIVE SortByDistance(_)
\* line 59: list.sort(key=route_distance_km), a stable sort
SortByDistance(list) ==
    IF list = <<>> THEN <<>>
    ELSE InsertByDistance(SortByDistance(SubSeq(list, 1, Len(list) - 1)),
                          list[Len(list)])

\* list[a:b] of Python, a and b counted from 0
Slice(list, a, b) == SubSeq(list, a + 1, Min2(b, Len(list)))

\* get_hospital_rating(name)["current_rating"], or None (-1) without a row
CurrentRating(d, name) ==
    IF SelectId(d, name) = 0 THEN None
    ELSE d.hospitals[SelectId(d, name)].current_rating

\* lines 91-103: the boost from the dataset, in 1/10000
Extra(flag, name) ==
    IF flag
    THEN (IF IcuAvailability(name) = "Y" THEN 1000 ELSE 0)
         + (IF ResponseReadiness(name) = "high" THEN 500 ELSE 0)
    ELSE 0

\* Faulty variant: the rating term is left out of the score.
CombinedScore_WithoutRating(h, rating, flag) ==
    <<55000 + Extra(flag, h.hospital_name) * (h.route_distance_km + 1),
      h.route_distance_km + 1>>

\* lines 88-104: route_score * 0.55 + rating_score * 0.35 + extra, with
\* route_score = 1 / (km + 0.1) and rating_score = rating / 5
CombinedScore(h, rating, flag) ==
    <<55000 + (7 * rating + Extra(flag, h.hospital_name)) * (h.route_distance_km + 1),
      h.route_distance_km + 1>>

\* Faulty variant: a >= b, a later candidate of equal score takes over.
ScoreNotLess(a, b) == a[1] * b[2] >= b[1] * a[2]

\* a > b for two scores
ScoreGreater(a, b) == a[1] * b[2] > b[1] * a[2]

\* Faulty variant: a hospital without a row is scored without being registered.
RegisterIfUnseen_Never(d, name) == d

\* Faulty variant: every candidate is registered with INSERT OR REPLACE.
RegisterIfUnseen_Replaces(d, name) == InsertOrReplaceHospital(d, name, "")

\* lines 74-85: get_hospital_rating, and register_hospital when it found no row
RegisterIfUnseen(d, name) ==
    IF SelectId(d, name) = 0 THEN InsertOrIgnoreHospital(d, name, "") ELSE d

\* line 89: the rating behind rating_score, whose default 0.5 is 2.5 stars
RatingOrDefault(d, name) ==
    IF CurrentRating(d, name) = None THEN DefaultRating ELSE CurrentRating(d, name)

\* lines 144-145: the counter of the selected hospital, 0 without rating_info
TotalCasesOrZero(d, name) ==
    IF SelectId(d, name) = 0 THEN 0 ELSE d.hospitals[SelectId(d, name)].total_cases

RECURSIVE SelectBest(_, _, _, _, _)
\* lines 69-109: the scan of the candidates; st carries the database (a
\* hospital without a row is registered on the way), best_score and
\* best_hospital (an index into routed, 0 for None), and log, the calls of
\* the scan in the order they are made.
SelectBest(routed, i, last, flag, st) ==
    IF i > last THEN st
    ELSE LET h == routed[i]
             d2 == RegisterIfUnseen(st.db, h.hospital_name)
             score == CombinedScore(h, RatingOrDefault(d2, h.hospital_name), flag)
             log2 == (IF d2 # st.db
                      THEN Append(st.log, [event |-> "register_hospital",
                                           name |-> h.hospital_name])
                      ELSE st.log)
                     \o <<[event |-> "combined_score", name |-> h.hospital_name]>>
         IN SelectBest(routed, i + 1, last, flag,
                IF ScoreGreater(score, st.best_score)
                THEN [db |-> d2, best_score |-> score, best_hospital |-> i,
                      log |-> log2]
                ELSE [st EXCEPT !.db = d2, !.log = log2])

\* lines 153-161
AlternativeHospitals(routed, d) ==
    [k \in 1 .. Len(Slice(routed, 1, 3)) |->
        LET h == Slice(routed, 1, 3)[k]
        IN [name |-> h.hospital_name, distance_km |-> h.route_distance_km,
            rating |-> RatingOrDefault(d, h.hospital_name)]]

\* handle_accident, lines 47-173, on the list the route finder returned.
HandleAccident(p) ==
    /\ CanStart(p)
    /\ response = NoResponse
    /\ \E list \in CandidateLists :
         LET routed == SortByDistance(Routed(list))
             st == SelectBest(routed, 1, Min2(5, Len(routed)), use_t_nagar_24x7,
                              [db |-> db, best_score |-> <<-10000, 1>>,
                               best_hospital |-> 0, log |-> <<>>])
             best == IF st.best_hospital = 0 THEN 1 ELSE st.best_hospital
         IN /\ hospitals' = list
            /\ IF routed = <<>>
               THEN /\ response' = [returned |-> TRUE, success |-> FALSE]
                    /\ db' = db
               ELSE /\ db' = st.db
                    /\ response' =
                         [returned |-> TRUE, success |-> TRUE,
                          selected_hospital |->
                              [name |-> routed[best].hospital_name,
                               star_rating |->
                                   RatingOrDefault(st.db, routed[best].hospital_name),
                               total_cases |->
                                   TotalCasesOrZero(st.db, routed[best].hospital_name)],
                          route |-> [distance_km |-> routed[best].route_distance_km],
                          alternative_hospitals |->
                              AlternativeHospitals(routed, st.db),
                          log |-> st.log]
    /\ ops' = ops + 1
    /\ UNCHANGED <<wr, lock, call, use_t_nagar_24x7>>
    /\ UNCHANGED <<pathVars, finderVars, queryVars>>

(***************************************************************************)
(* EmergencyRouteFinder: get_road_network and find_optimal_hospital_route. *)
(*                                                                         *)
(* Coordinates are in millionths of a degree.  A graph is the object the   *)
(* provider (ox.graph_from_point) built, named by a number: every          *)
(* successful download builds a new object.                                *)
(***************************************************************************)
CenterLats == {-30, 30, 40, 60}
CenterLons == {80270030, 80270060}
Radii == {3000, 5000}
DefaultRadius == 5000
AccidentPoints == {<<-100, 80270020>>, <<100, 80270020>>}
HospitalPoints == {<<40, 80270040>>, <<20, 80270100>>}

\* f"{x:.4f}": the sign and the digits of x rounded to four decimals, the
\* number of ten-thousandths.  A negative x keeps its sign when it rounds
\* to zero ("-0.0000").  (No x above lies halfway between two results.)
FormatFixed4(x) ==
    [sign |-> IF x < 0 THEN "-" ELSE "",
     digits |-> ((IF x < 0 THEN -x ELSE x) + 50) \div 100]

\* line 186: f"{center_lat:.4f}_{center_lon:.4f}_{radius_m}"
CacheKey(center_lat, center_lon, radius_m) ==
    <<FormatFixed4(center_lat), FormatFixed4(center_lon), radius_m>>

\* lines 263-264
Mean(a, b) == (a + b) \div 2

\* haversine_distance(lat1, lon1, lat2, lon2), as a term
Haversine(from, to) == [kind |-> "haversine", from |-> from, to |-> to]

\* line 212: self.graph_cache[cache_key] = G
StoreGraph(cache, key, G) ==
    [k \in DOMAIN cache \cup {key} |-> IF k = key THEN G ELSE cache[k]]

\* Faulty variant: the failure is cached, as an entry holding None.
CacheAfterFailure_StoresNone(cache, key) ==
    [k \in DOMAIN cache \cup {key} |-> IF k = key THEN None ELSE cache[k]]

\* lines 214-218: the except branch leaves the cache alone
CacheAfterFailure(cache, key) == cache

\* Faulty variant: the recursive call without fast_mode=True.
FallbackFastMode_Default == FALSE

\* line 273: fast_mode=True in the recursive call
FallbackFastMode == TRUE

NoRouteResult == [returned |-> FALSE]

IdleRouteCall ==
    [op |-> "none", pc |-> "idle",
     accident |-> <<0, 0>>, hospital |-> <<0, 0>>,
     requested_fast |-> FALSE, fast_mode |-> FALSE,
     center_lat |-> 0, center_lon |-> 0, radius_m |-> 0,
     cache_key |-> <<>>, seen |-> <<>>,
     G |-> None, hit |-> FALSE, invoked |-> 0, fetch_failed |-> FALSE,
     depth |-> 0, result |-> NoRouteResult]

FinderInit ==
    /\ graph_cache = <<>>
    /\ next_graph = 1
    /\ rcall = [p \in Procs |-> IdleRouteCall]
    /\ rops = 0

CanStartRoute(p) == rcall[p].pc \in {"idle", "done"} /\ rops < MaxRouteCalls

\* get_road_network(center_lat, center_lon, radius_m) called directly
StartNetwork(p) ==
    /\ CanStartRoute(p)
    /\ \E lat \in CenterLats, lon \in CenterLons, radius \in Radii :
         rcall' = [rcall EXCEPT ![p] =
                     [IdleRouteCall EXCEPT
                        !.op = "network", !.pc = "lookup",
                        !.center_lat = lat, !.center_lon = lon,
                        !.radius_m = radius]]
    /\ rops' = rops + 1
    /\ UNCHANGED <<graph_cache, next_graph>>
    /\ UNCHANGED outsideFinder

\* find_optimal_hospital_route(accident, hospital, fast_mode=...)
StartRoute(p) ==
    /\ CanStartRoute(p)
    /\ \E a \in AccidentPoints, h \in HospitalPoints, fast \in BOOLEAN :
         rcall' = [rcall EXCEPT ![p] =
                     [IdleRouteCall EXCEPT
                        !.op = "route", !.pc = "entry",
                        !.accident = a, !.hospital = h,
                        !.requested_fast = fast, !.fast_mode = fast,
                        !.radius_m = DefaultRadius]]
    /\ rops' = rops + 1
    /\ UNCHANGED <<graph_cache, next_graph>>
    /\ UNCHANGED outsideFinder

\* lines 249-259
FastResult(c) ==
    [returned |-> TRUE, success |-> TRUE, fast_mode |-> TRUE,
     distance_km |-> Haversine(c.accident, c.hospital),
     path_coordinates |-> <<c.hospital, c.accident>>, error |-> ""]

\* lines 236-264: the fast mode, or the centre of the road network
RouteEntry(p) ==
    /\ rcall[p].pc = "entry"
    /\ LET c == rcall[p]
       IN rcall' = [rcall EXCEPT ![p] =
            IF c.fast_mode
            THEN [c EXCEPT !.pc = "done", !.result = FastResult(c)]
            ELSE [c EXCEPT !.pc = "lookup",
                           !.center_lat = Mean(c.accident[1], c.hospital[1]),
                           !.center_lon = Mean(c.accident[2], c.hospital[2])]]
    /\ UNCHANGED <<graph_cache, next_graph, rops>>
    /\ UNCHANGED outsideFinder

\* where get_road_network returns to
AfterReturn(c) == IF c.op = "network" THEN "done" ELSE "after_network"

\* lines 186-190: the key, and the cached graph if there is one
CacheLookup(p) ==
    /\ rcall[p].pc = "lookup"
    /\ LET c == rcall[p]
           key == CacheKey(c.center_lat, c.center_lon, c.radius_m)
       IN rcall' = [rcall EXCEPT ![p] =
            IF key \in DOMAIN graph_cache
            THEN [c EXCEPT !.cache_key = key, !.seen = graph_cache,
                           !.hit = TRUE, !.G = graph_cache[key],
                           !.pc = AfterReturn(c)]
            ELSE [c EXCEPT !.cache_key = key, !.seen = graph_cache,
                           !.pc = "download"]]
    /\ UNCHANGED <<graph_cache, next_graph, rops>>
    /\ UNCHANGED outsideFinder

\* lines 196-213: the provider built a graph
DownloadOk(p) ==
    /\ rcall[p].pc = "download"
    /\ graph_cache' = StoreGraph(graph_cache, rcall[p].cache_key, next_graph)
    /\ next_graph' = next_graph + 1
    /\ rcall' = [rcall EXCEPT ![p] =
                   [@ EXCEPT !.G = next_graph, !.invoked = @ + 1,
                             !.pc = AfterReturn(rcall[p])]]
    /\ UNCHANGED rops
    /\ UNCHANGED outsideFinder

\* lines 196-206, 214-218: the provider raised (an error, the timeout)
DownloadFail(p) ==
    /\ rcall[p].pc = "download"
    /\ graph_cache' = CacheAfterFailure(graph_cache, rcall[p].cache_key)
    /\ rcall' = [rcall EXCEPT ![p] =
                   [@ EXCEPT !.G = None, !.invoked = @ + 1,
                             !.fetch_failed = TRUE,
                             !.pc = AfterReturn(rcall[p])]]
    /\ UNCHANGED <<next_graph, rops>>
    /\ UNCHANGED outsideFinder

\* lines 266-274: without a graph, the call of itself in fast mode
NetworkReturned(p) ==
    /\ rcall[p].pc = "after_network"
    /\ rcall' = [rcall EXCEPT ![p] =
                   IF @.G = None
                   THEN [@ EXCEPT !.pc = "entry",
                                  !.fast_mode = FallbackFastMode,
                                  !.radius_m = DefaultRadius,
                                  !.depth = @ + 1]
                   ELSE [@ EXCEPT !.pc = "nodes"]]
    /\ UNCHANGED <<graph_cache, next_graph, rops>>
    /\ UNCHANGED outsideFinder

FailedResult(error) ==
    [returned |-> TRUE, success |-> FALSE, fast_mode |-> FALSE,
     distance_km |-> [kind |-> "none"], path_coordinates |-> <<>>,
     error |-> error]

\* lines 277-284: nearest_nodes raised
NodesNotFound(p) ==
    /\ rcall[p].pc = "nodes"
    /\ rcall' = [rcall EXCEPT ![p] =
                   [@ EXCEPT !.pc = "done",
                             !.result = FailedResult("Could not find nodes")]]
    /\ UNCHANGED <<graph_cache, next_graph, rops>>
    /\ UNCHANGED outsideFinder

\* lines 286-294: find_shortest_path returned (None, inf)
NoRouteFound(p) ==
    /\ rcall[p].pc = "nodes"
    /\ rcall' = [rcall EXCEPT ![p] =
                   [@ EXCEPT !.pc = "done",
                             !.result = FailedResult("No route found")]]
    /\ UNCHANGED <<graph_cache, next_graph, rops>>
    /\ UNCHANGED outsideFinder

\* lines 286-319: a path over the graph G, from the hospital's node to the
\* accident's; the centre stands for the nodes between them
RouteFound(p) ==
    /\ rcall[p].pc = "nodes"
    /\ LET c == rcall[p]
       IN rcall' = [rcall EXCEPT ![p] =
            [c EXCEPT !.pc = "done",
                      !.result =
                         [returned |-> TRUE, success |-> TRUE,
                          fast_mode |-> FALSE,
                          distance_km |->
                              [kind |-> "road", graph |-> c.G,
                               from |-> c.hospital, to |-> c.accident],
                          path_coordinates |->
                              <<c.hospital, <<c.center_lat, c.center_lon>>,
                                c.accident>>,
                          error |-> ""]]]
    /\ UNCHANGED <<graph_cache, next_graph, rops>>
    /\ UNCHANGED outsideFinder

\* Callers on threads of their own, sharing one EmergencyRouteFinder.
NextFinder ==
    \E p \in Procs :
        \/ StartNetwork(p)
        \/ StartRoute(p)
        \/ RouteEntry(p)
        \/ CacheLookup(p)
        \/ DownloadOk(p)
        \/ DownloadFail(p)
        \/ NetworkReturned(p)
        \/ NodesNotFound(p)
        \/ NoRouteFound(p)
        \/ RouteFound(p)

PathIdle ==
    /\ graph = <<>> /\ source = 0 /\ target = 0
    /\ forward_dist = <<>> /\ forward_prev = <<>>
    /\ forward_heap = {} /\ forward_visited = {}
    /\ backward_dist = <<>> /\ backward_prev = <<>>
    /\ backward_heap = {} /\ backward_visited = {}
    /\ meeting_point = None /\ min_total_dist = Inf
    /\ pathPc = "idle"
    /\ path = NoPath /\ distance = Inf

\* One caller at a time: register, record_case_outcome and
\* update_rating_manually in any order.
Next ==
    \E p \in {1} :
        \/ StartRegister(p)
        \/ StartRecord(p)
        \/ StartManual(p)
        \/ Lookup(p)
        \/ RegInsert(p)
        \/ RegCommit(p)
        \/ TxInsert(p)
        \/ TxUpdate(p)
        \/ TxRating(p)
        \/ TxHistory(p)
        \/ TxCommit(p)
        \/ TxFail(p)
        \/ ManUpdate(p)
        \/ ManCommit(p)
        \/ ManFail(p)

\* An empty database, no search.
Init == PathIdle /\ StoreInit /\ DispatchIdle /\ FinderInit

Spec == Init /\ [][Next]_vars

\* One caller at a time, without update_rating_manually: any sequence of
\* register and record_case_outcome calls.
NextRecord ==
    \E p \in {1} :
        \/ StartRegister(p)
        \/ StartRecord(p)
        \/ Lookup(p)
        \/ RegInsert(p)
        \/ RegCommit(p)
        \/ TxInsert(p)
        \/ TxUpdate(p)
        \/ TxRating(p)
        \/ TxHistory(p)
        \/ TxCommit(p)
        \/ TxFail(p)

SpecRecord == Init /\ [][NextRecord]_vars

\* NumProcs callers, one call each (register or record_case_outcome), their
\* statements interleaved in any order.
FirstCall(p) == call[p].pc = "idle"

NextConc ==
    \E p \in Procs :
        \/ FirstCall(p) /\ StartRegister(p)
        \/ FirstCall(p) /\ StartRecord(p)
        \/ Lookup(p)
        \/ RegInsert(p)
        \/ RegCommit(p)
        \/ RegTimeout(p)
        \/ TxInsert(p)
        \/ TxUpdate(p)
        \/ TxRating(p)
        \/ TxHistory(p)
        \/ TxCommit(p)
        \/ TxFail(p)
        \/ LockTimeout(p)

SpecConc == Init /\ [][NextConc]_vars

\* One caller: register and record_case_outcome calls, one after the
\* other, and then one handle_accident, with either value of the flag.
\* The dispatch is the last call of a run.
InitDispatch ==
    /\ PathIdle /\ StoreInit /\ FinderInit
    /\ use_t_nagar_24x7 \in BOOLEAN
    /\ hospitals = <<>>
    /\ response = NoResponse

\* A store call may start before the dispatch, MaxPriorCalls times.
NotDispatched == response = NoResponse /\ ops < MaxPriorCalls

NextDispatch ==
    \E p \in {1} :
        \/ NotDispatched /\ StartRegister(p)
        \/ NotDispatched /\ StartRecord(p)
        \/ Lookup(p)
        \/ RegInsert(p)
        \/ RegCommit(p)
        \/ TxInsert(p)
        \/ TxUpdate(p)
        \/ TxRating(p)
        \/ TxHistory(p)
        \/ TxCommit(p)
        \/ HandleAccident(p)

SpecDispatch == InitDispatch /\ [][NextDispatch]_vars

SpecFinder == Init /\ [][NextFinder]_vars

\* One search of one graph.
\* One caller: register and record_case_outcome calls, one after the other,
\* and then one of the two queries, which is the last call of a run.
NotQueried == view = NoView

NextQuery ==
    \E p \in {1} :
        \/ NotQueried /\ StartRegister(p)
        \/ NotQueried /\ StartRecord(p)
        \/ Lookup(p)
        \/ RegInsert(p)
        \/ RegCommit(p)
        \/ TxInsert(p)
        \/ TxUpdate(p)
        \/ TxRating(p)
        \/ TxHistory(p)
        \/ TxCommit(p)
        \/ GetHospitalRating(p)
        \/ GetTopHospitals(p)

SpecQuery == Init /\ [][NextQuery]_vars

\* One caller of record_case_outcome, call after call, and on another
\* thread one get_hospital_rating, its two SELECTs interleaved with the
\* statements of the first caller in any order.
NextSnapshot ==
    \/ \E p \in {1} :
           \/ StartRecord(p)
           \/ Lookup(p)
           \/ RegInsert(p)
           \/ RegCommit(p)
           \/ TxInsert(p)
           \/ TxUpdate(p)
           \/ TxRating(p)
           \/ TxHistory(p)
           \/ TxCommit(p)
    \/ SelectHospitalRow
    \/ SelectAverageQuality

SpecSnapshot == Init /\ [][NextSnapshot]_vars

\* The graph of the search is the one get_road_network returned, which the
\* cache holds as its only entry.
SearchedGraphCached ==
    /\ graph_cache = (CacheKey(30, 80270030, DefaultRadius) :> 1)
    /\ next_graph = 2
    /\ rcall = [p \in Procs |-> IdleRouteCall]
    /\ rops = 0

InitPath == PathInit /\ StoreInit /\ DispatchIdle /\ SearchedGraphCached

SpecPath == InitPath /\ [][PathNext]_vars

\* The search ended at line 149, with a path found through a meeting point.
ReturnedFromSearch == pathPc = "done" /\ source # target /\ path # NoPath

\* C13: the search returns a path only when a meeting point exists and
\* either a heap is empty or the least keys of the two heaps add up to at
\* least min_total_dist; a meeting point alone does not end it.
C13_StopsOnlyWhenFrontiersPass ==
    ReturnedFromSearch =>
        /\ meeting_point # None
        /\ \/ forward_heap = {}
           \/ backward_heap = {}
           \/ HeapMin(forward_heap)[1] + HeapMin(backward_heap)[1] >= min_total_dist

\* A return with the heaps' least keys still below the distance returned,
\* which is then not the shortest.
StoppedEarlyWithLongerPath ==
    /\ ReturnedFromSearch
    /\ forward_heap # {} /\ backward_heap # {}
    /\ HeapMin(forward_heap)[1] + HeapMin(backward_heap)[1] < min_total_dist
    /\ ReferenceDistance(graph, source, target) < distance

\* C14: a returned path starts at source, ends at target, follows directed
\* edges of the graph, and holds the meeting point exactly once.
C14_PathIsWalkThroughMeeting ==
    (pathPc = "done" /\ path # NoPath) =>
        /\ path[1] = source
        /\ path[Len(path)] = target
        /\ \A i \in 1 .. Len(path) - 1 : <<path[i], path[i + 1]>> \in DOMAIN graph
        /\ source # target =>
               Cardinality({i \in 1 .. Len(path) : path[i] = meeting_point}) = 1

\* C14 witness: a path of four nodes whose meeting point is an inner node.
C14_Witness ==
    /\ ReturnedFromSearch
    /\ Len(path) = 4
    /\ meeting_point \notin {source, target}

\* C15: with source = target the result is the path [source] of distance
\* 0, and no node was expanded: nothing visited, labelled or queued.
C15_SameNodeShortCircuits ==
    (pathPc = "done" /\ source = target) =>
        /\ path = <<source>>
        /\ distance = 0
        /\ forward_visited = {} /\ backward_visited = {}
        /\ forward_heap = {} /\ backward_heap = {}
        /\ forward_dist = <<>> /\ backward_dist = <<>>

\* C15 witness: the call returned for a node that has outgoing edges.
C15_Witness ==
    /\ pathPc = "done" /\ source = target
    /\ Successors(graph, source) # {}
    /\ path = <<source>>

(***************************************************************************)
(* Properties of the rating store.                                       *)
(***************************************************************************)
HospitalIds(d) == 1 .. Len(d.hospitals)

\* the case_history rows of hospital hid, in insertion order
RECURSIVE CasesOf(_, _)
CasesOf(rows, hid) ==
    IF rows = <<>> THEN <<>>
    ELSE (IF Head(rows).hospital_id = hid THEN <<Head(rows)>> ELSE <<>>)
         \o CasesOf(Tail(rows), hid)

RECURSIVE RatingChangesOf(_, _)
RatingChangesOf(rows, hid) ==
    IF rows = <<>> THEN <<>>
    ELSE (IF Head(rows).hospital_id = hid THEN <<Head(rows)>> ELSE <<>>)
         \o RatingChangesOf(Tail(rows), hid)

HalfStars == {50 * k : k \in 0 .. 10}

AllReturned == \A p \in Procs : call[p].pc \in {"idle", "done"}

RecordCallsFor(name) ==
    {p \in Procs : call[p].op = "record" /\ call[p].name = name}

TotalCasesOf(name) ==
    IF SelectId(db, name) = 0 THEN 0
    ELSE db.hospitals[SelectId(db, name)].total_cases

\* No statement of a transaction raised for a reason of the storage itself
\* (failed_at is then the statement); waiting for the write lock is not
\* such a reason.
NoStorageFailure ==
    \A p \in Procs : call[p].failed_at \in {"", "locked"}

\* C2: once N concurrent record_case_outcome calls for one name have all
\* returned, the storage having failed none of them, the hospital's
\* total_cases is N.
C2_NoCallLost ==
    \A name \in Names :
        (AllReturned /\ NoStorageFailure /\ RecordCallsFor(name) = Procs)
            => TotalCasesOf(name) = NumProcs

\* What does hold of the concurrent calls: total_cases counts the calls
\* that returned True, so a committed update is never overwritten.
CommittedCallsCounted ==
    AllReturned =>
        \A name \in Names :
            TotalCasesOf(name) =
                Cardinality({p \in RecordCallsFor(name) : call[p].result = "true"})

\* C3: a hospital without cases is rated 2.5, and one whose only outcome is
\* (successful, quality 100, response 0 minutes) is rated 5.0.
C3_FreshThenPerfectOutcome ==
    \A i \in HospitalIds(db) :
        /\ db.hospitals[i].total_cases = 0
              => db.hospitals[i].current_rating = 250
        /\ (/\ db.hospitals[i].total_cases = 1
            /\ CasesOf(db.case_history, i) =
                  <<[hospital_id |-> i, patient_outcome |-> "successful",
                     quality_score |-> 100, response_time_minutes |-> 0]>>)
              => db.hospitals[i].current_rating = 500

\* The rating formula as the specification words it: the mean quality of
\* the hospital's outcome records and cumulative response minutes over
\* total_cases, whatever their value.
FormulaRating(d, hid) ==
    LET h == d.hospitals[hid]
        n == h.total_cases
        s == h.successful_outcomes
        qn == SumOver(d.case_history, hid, "quality")
        qd == SumOver(d.case_history, hid, "count")
        rn == h.total_response_time_minutes
        x == Max2(0, Min2(600 * n, 600 * n - 5 * rn))
    IN 50 * RoundHalfEven(4 * s * 200 * qd * 240 * n
                            + 7 * qn * n * 240 * n
                            + x * n * 200 * qd,
                          n * 200 * qd * 240 * n)

RecordReturnedTrue(p) ==
    call[p].pc = "done" /\ call[p].op = "record" /\ call[p].result = "true"

\* C4: after a record_case_outcome that returned True, the hospital's
\* rating is the formula's value.
C4_RatingIsFormula ==
    \A p \in Procs :
        RecordReturnedTrue(p) =>
            db.hospitals[SelectId(db, call[p].name)].current_rating =
                FormulaRating(db, SelectId(db, call[p].name))

\* C5: under register and record_case_outcome calls alone, every committed
\* rating is one of 0, 0.5, ..., 5.0.
C5_RatingIsHalfStar ==
    \A i \in HospitalIds(db) : db.hospitals[i].current_rating \in HalfStars

\* C5 witness: a hospital whose recomputed rating left the default.
C5_Witness ==
    \E i \in HospitalIds(db) :
        /\ db.hospitals[i].total_cases >= 2
        /\ db.hospitals[i].current_rating \notin {250, 0, 500}

\* C6: with update_rating_manually among the calls, every committed rating
\* is a multiple of 0.5 between 0 and 5.
C6_RatingInRangeAlways ==
    \A i \in HospitalIds(db) :
        LET r == db.hospitals[i].current_rating
        IN r % 50 = 0 /\ 0 <= r /\ r <= 500

\* The step in which caller p's record_case_outcome returns True.
ReturnsTrue(p) ==
    /\ call[p].op = "record" /\ call[p].result = "none"
    /\ call'[p].result = "true"

\* A step of caller p inside its transaction that does not return True.
InsideTransaction(p) ==
    /\ call[p].pc \in {"tx_insert", "tx_update", "tx_rating", "tx_history",
                       "tx_commit"}
    /\ call'[p] # call[p]
    /\ call'[p].result # "true"

\* the effect of one outcome of c on the committed rows, rating aside
OutcomeApplied(c) ==
    LET hid == c.hospital_id
        h == db.hospitals[hid]
        h2 == db'.hospitals[hid]
    IN /\ db'.case_history =
             Append(db.case_history,
                    [hospital_id |-> hid, patient_outcome |-> c.outcome,
                     quality_score |-> c.quality,
                     response_time_minutes |-> c.response])
       /\ Len(db'.hospitals) = Len(db.hospitals)
       /\ h2.total_cases = h.total_cases + 1
       /\ h2.successful_outcomes =
             h.successful_outcomes + (IF c.outcome = "successful" THEN 1 ELSE 0)
       /\ h2.total_response_time_minutes =
             h.total_response_time_minutes + c.response
       /\ \A j \in HospitalIds(db) \ {hid} : db'.hospitals[j] = db.hospitals[j]

\* C7: the step in which record_case_outcome returns True adds exactly one
\* case_history row and the call's increments to the committed database,
\* and no other step of the transaction changes the committed database.
C7_OutcomeAppliedAtomically ==
    [][\A p \in Procs :
          /\ ReturnsTrue(p) => OutcomeApplied(call[p])
          /\ InsideTransaction(p) => db' = db]_vars

\* C7 witness: a successful and an unsuccessful outcome both committed for
\* one hospital.
C7_Witness ==
    \E i \in HospitalIds(db) :
        /\ db.hospitals[i].total_cases = 2
        /\ db.hospitals[i].successful_outcomes = 1
        /\ db.hospitals[i].total_response_time_minutes > 0
        /\ \E p \in Procs : RecordReturnedTrue(p)

\* the rows of d that existed in the database before the call are as they
\* were, and any hospital row added is a new row with the given name
LedgerAsBefore(d, before, name) ==
    /\ d.case_history = before.case_history
    /\ d.rating_history = before.rating_history
    /\ Len(d.hospitals) >= Len(before.hospitals)
    /\ \A i \in HospitalIds(before) : d.hospitals[i] = before.hospitals[i]
    /\ \A i \in HospitalIds(d) \ HospitalIds(before) :
          d.hospitals[i] = NewHospitalRow(name, "")

\* C8: a record_case_outcome whose transaction failed returned False and
\* left every outcome record, counter, rating and rating change as it was
\* before the call.
C8_FailureLeavesNoTrace ==
    \A p \in Procs :
        (call[p].pc = "done" /\ call[p].op = "record"
            /\ call[p].failed_at # "")
          => /\ call[p].result = "false"
             /\ LedgerAsBefore(db, call[p].pre, call[p].name)

\* C8 witness: the failure came after the counter update, for a hospital
\* that had cases before.
C8_Witness ==
    \E p \in Procs :
        /\ call[p].pc = "done" /\ call[p].op = "record"
        /\ call[p].failed_at \in {"tx_rating", "tx_history", "tx_commit"}
        /\ TotalCasesOf(call[p].name) >= 1

RowsNamed(d, name) == {i \in HospitalIds(d) : d.hospitals[i].name = name}

\* C9, in a state: no name has two rows, and a register_hospital that has
\* returned gave back the id of the row of its name; that row is the row
\* that was there before the call, unchanged like every other row, or else
\* a new row with rating 2.5 and zero counters.
C9_RegisterState ==
    /\ \A name \in Names : Cardinality(RowsNamed(db, name)) <= 1
    /\ \A p \in Procs :
          (call[p].pc = "done" /\ call[p].op = "register") =>
             LET c == call[p]
             IN /\ c.ret_id # 0
                /\ RowsNamed(db, c.name) = {c.ret_id}
                /\ db.case_history = c.pre.case_history
                /\ db.rating_history = c.pre.rating_history
                /\ \A i \in HospitalIds(c.pre) :
                      db.hospitals[i] = c.pre.hospitals[i]
                /\ IF SelectId(c.pre, c.name) # 0
                   THEN /\ c.ret_id = SelectId(c.pre, c.name)
                        /\ Len(db.hospitals) = Len(c.pre.hospitals)
                   ELSE /\ Len(db.hospitals) = Len(c.pre.hospitals) + 1
                        /\ db.hospitals[c.ret_id] =
                              NewHospitalRow(c.name, c.address)

\* C9, in a step: the id of a name never changes.
C9_IdsKept ==
    \A name \in Names :
        SelectId(db, name) # 0 => SelectId(db', name) = SelectId(db, name)

\* C9: register_hospital is idempotent.
C9_RegisterIdempotent == []C9_RegisterState /\ [][C9_IdsKept]_vars

\* C9 witness: register_hospital returned for a name whose row already had
\* cases on it, under another address.
C9_Witness ==
    \E p \in Procs :
        /\ call[p].pc = "done" /\ call[p].op = "register"
        /\ SelectId(call[p].pre, call[p].name) # 0
        /\ TotalCasesOf(call[p].name) >= 1
        /\ db.hospitals[call[p].ret_id].address # call[p].address

(***************************************************************************)
(* Properties of handle_accident.                                          *)
(***************************************************************************)
Dispatched == response.returned /\ response.success

\* the routed candidates of the dispatch, nearest first
RoutedCandidates == SortByDistance(Routed(hospitals))

AlternateNames ==
    {response.alternative_hospitals[k].name :
        k \in 1 .. Len(response.alternative_hospitals)}

RECURSIVE Without(_, _)
\* list without the entries named name
Without(list, name) ==
    IF list = <<>> THEN <<>>
    ELSE (IF Head(list).hospital_name = name THEN <<>> ELSE <<Head(list)>>)
         \o Without(Tail(list), name)

\* C10: in every successful handle_accident result the alternates are the
\* next two routed candidates, nearest first, the selected hospital left
\* out: the selected hospital is never among the alternates, and the nearest
\* routed candidate is among them whenever it was not the one selected.
C10_AlternatesExcludeSelected ==
    Dispatched =>
        LET selected == response.selected_hospital.name
            expected == Slice(Without(RoutedCandidates, selected), 0, 2)
        IN /\ selected \notin AlternateNames
           /\ RoutedCandidates[1].hospital_name # selected
                  => RoutedCandidates[1].hospital_name \in AlternateNames
           /\ Len(response.alternative_hospitals) = Len(expected)
           /\ \A k \in 1 .. Len(expected) :
                  response.alternative_hospitals[k].name = expected[k].hospital_name

\* What the code returns instead: the second and third routed candidates,
\* whichever was selected.
AlternatesAreSecondAndThird ==
    Dispatched =>
        /\ Len(response.alternative_hospitals) = Len(Slice(RoutedCandidates, 1, 3))
        /\ \A k \in 1 .. Len(response.alternative_hospitals) :
               response.alternative_hospitals[k].name
                   = RoutedCandidates[k + 1].hospital_name

\* A farther hospital with the better rating is selected, and is returned
\* as the only alternate of itself.
SelectedAmongAlternates ==
    /\ Dispatched
    /\ Len(RoutedCandidates) = 2
    /\ RoutedCandidates[1].route_distance_km < RoutedCandidates[2].route_distance_km
    /\ response.selected_hospital.name = RoutedCandidates[2].hospital_name
    /\ AlternateNames = {response.selected_hospital.name}
    /\ use_t_nagar_24x7 = FALSE

\* 0.55 * 1/(km + 0.1) + 0.35 * rating/5.0 + extra of a candidate, as the
\* fraction <<n, d>> in units of 1/10000, from the stored rating (in
\* hundredths of a star) and the dataset's columns.
FormulaScore(h) ==
    LET tenths == h.route_distance_km + 1
        rating == db.hospitals[SelectId(db, h.hospital_name)].current_rating
        icu == IF use_t_nagar_24x7 /\ IcuAvailability(h.hospital_name) = "Y"
               THEN 1000 ELSE 0
        ready == IF use_t_nagar_24x7 /\ ResponseReadiness(h.hospital_name) = "high"
                 THEN 500 ELSE 0
    IN <<55000 + (7 * rating + icu + ready) * tenths, tenths>>

FractionLess(a, b) == a[1] * b[2] < b[1] * a[2]

\* the candidates handle_accident scores: the first five, nearest first
ScoredCandidates == SubSeq(RoutedCandidates, 1, Min2(5, Len(RoutedCandidates)))

SelectedIndex ==
    CHOOSE i \in 1 .. Len(RoutedCandidates) :
        RoutedCandidates[i].hospital_name = response.selected_hospital.name

\* C11: among scored candidates of equal score the one that comes first,
\* nearest first, is kept: the selected candidate's score is strictly
\* greater than the score of every scored candidate before it, and no
\* scored candidate after it has a greater score.
C11_TieKeepsFirst ==
    Dispatched =>
        /\ SelectedIndex \in 1 .. Len(ScoredCandidates)
        /\ \A j \in 1 .. Len(ScoredCandidates) :
               /\ j < SelectedIndex =>
                      FractionLess(FormulaScore(ScoredCandidates[j]),
                                   FormulaScore(ScoredCandidates[SelectedIndex]))
               /\ j > SelectedIndex =>
                      ~FractionLess(FormulaScore(ScoredCandidates[SelectedIndex]),
                                    FormulaScore(ScoredCandidates[j]))

\* C11 witness: two scored candidates tie for the best score, and the
\* first of them is the selected one.
C11_Witness ==
    /\ Dispatched
    /\ \E j \in 1 .. Len(ScoredCandidates) :
           /\ j > SelectedIndex
           /\ FormulaScore(ScoredCandidates[j])
                  = FormulaScore(ScoredCandidates[SelectedIndex])
           /\ ScoredCandidates[j].route_distance_km
                  = ScoredCandidates[SelectedIndex].route_distance_km

SomeRouted(list) == \E i \in 1 .. Len(list) : list[i].route_success

\* What a handle_accident step must do, by whether a candidate was routed.
DispatchOutcome ==
    (response = NoResponse /\ response' # NoResponse) =>
        /\ response'.success <=> SomeRouted(hospitals')
        /\ ~response'.success => db' = db
        /\ response'.success =>
               \E i \in 1 .. Len(hospitals') :
                   /\ hospitals'[i].route_success
                   /\ hospitals'[i].hospital_name = response'.selected_hospital.name

\* C20: handle_accident fails if and only if no candidate was routed; it
\* then registers no hospital and leaves the rating store as it was; and
\* otherwise the hospital it selects is one of the routed candidates.
C20_FailsIffNothingRouted == [][DispatchOutcome]_vars

\* C20 witness: a dispatch over candidates none of which was routed, with
\* a rating store that already has a hospital.
C20_Witness ==
    /\ response.returned /\ ~response.success
    /\ Len(hospitals) >= 2
    /\ Len(db.hospitals) = 1

(***************************************************************************)
(* Properties of the road network cache and of the route computation.      *)
(***************************************************************************)
\* x, millionths of a degree, rounded to four decimals: ten-thousandths
Round4(x) == IF x < 0 THEN -((50 - x) \div 100) ELSE (x + 50) \div 100

\* The callers whose get_road_network has looked the key up.
LookedUp == {p \in Procs : rcall[p].cache_key # <<>>}

SameRoundedRequest(c, d) ==
    /\ Round4(c.center_lat) = Round4(d.center_lat)
    /\ Round4(c.center_lon) = Round4(d.center_lon)
    /\ c.radius_m = d.radius_m

\* A hit returns the graph stored for the key and invokes no provider.
HitReturnsStored ==
    \A p \in LookedUp :
        rcall[p].hit =>
            /\ rcall[p].cache_key \in DOMAIN rcall[p].seen
            /\ rcall[p].G = rcall[p].seen[rcall[p].cache_key]
            /\ rcall[p].invoked = 0

\* Requests that differ in rounded centre or radius never share an entry.
DifferentRequestsDifferentKeys ==
    \A p, q \in LookedUp :
        ~SameRoundedRequest(rcall[p], rcall[q])
            => rcall[p].cache_key # rcall[q].cache_key

\* C16: a request whose key is cached gets the stored graph without a
\* provider call; requests whose centres round to the same four-decimal
\* value, with the same radius, use one entry; requests that differ in
\* rounded centre or radius never do.
C16_KeyIsRoundedCenterAndRadius ==
    /\ HitReturnsStored
    /\ DifferentRequestsDifferentKeys
    /\ \A p, q \in LookedUp :
           SameRoundedRequest(rcall[p], rcall[q])
               => rcall[p].cache_key = rcall[q].cache_key

\* Two graphs are cached for one rounded centre and radius: a latitude just
\* below zero has the key "-0.0000", one just above it "0.0000".
TwoEntriesForOneRoundedCenter ==
    \E p, q \in LookedUp :
        /\ SameRoundedRequest(rcall[p], rcall[q])
        /\ rcall[p].cache_key # rcall[q].cache_key
        /\ {rcall[p].cache_key, rcall[q].cache_key} \subseteq DOMAIN graph_cache
        /\ rcall[p].invoked = 1 /\ rcall[q].invoked = 1

CacheHoldsGraphs ==
    \A k \in DOMAIN graph_cache : graph_cache[k] \in 1 .. next_graph - 1

\* the step in which p's provider call fails
FailureLeavesCache ==
    \A p \in Procs :
        (rcall'[p].fetch_failed /\ ~rcall[p].fetch_failed) =>
            /\ graph_cache' = graph_cache
            /\ rcall'[p].G = None
            /\ rcall'[p].op = "network" => rcall'[p].pc = "done"

\* a miss sends the call to the provider
MissInvokesProvider ==
    \A p \in LookedUp :
        (~rcall[p].hit /\ rcall[p].pc # "download") => rcall[p].invoked >= 1

\* C17: a provider failure returns None and leaves the cache as it was;
\* every cache entry is a graph a successful provider call returned; and a
\* request that misses invokes the provider, after a failure too.
C17_FailureNotCached ==
    /\ [](CacheHoldsGraphs /\ MissInvokesProvider)
    /\ [][FailureLeavesCache]_vars

\* C17 witness: one caller's download failed and returned None; the other
\* caller's request for the same key invoked the provider and its graph is
\* the cached one.
C17_Witness ==
    \E p, q \in Procs :
        /\ p # q
        /\ rcall[p].op = "network" /\ rcall[p].pc = "done"
        /\ rcall[p].fetch_failed /\ rcall[p].G = None
        /\ rcall[q].cache_key = rcall[p].cache_key
        /\ rcall[q].invoked = 1 /\ ~rcall[q].fetch_failed
        /\ graph_cache[rcall[q].cache_key] = rcall[q].G

EntriesKept ==
    \A k \in DOMAIN graph_cache :
        k \in DOMAIN graph_cache' /\ graph_cache'[k] = graph_cache[k]

\* C18: a cache entry, once inserted, is never replaced, changed or
\* removed, whatever the interleaving of the get_road_network calls.
C18_EntriesNeverReplaced == [][EntriesKept]_vars

\* Two callers missed on one key and both downloaded: the graph the first
\* one cached and returned is no longer the one in the cache.
EntryReplaced ==
    \E p, q \in Procs :
        /\ p # q
        /\ rcall[p].cache_key = rcall[q].cache_key
        /\ rcall[p].cache_key \in DOMAIN graph_cache
        /\ ~rcall[p].hit /\ rcall[p].G # None /\ rcall[p].pc = "done"
        /\ ~rcall[q].hit /\ rcall[q].G # None
        /\ graph_cache[rcall[p].cache_key] # rcall[p].G

\* The route calls that asked for a road route, lost the network fetch and
\* have returned.
FellBack ==
    {p \in Procs : /\ rcall[p].op = "route" /\ rcall[p].pc = "done"
                   /\ ~rcall[p].requested_fast /\ rcall[p].fetch_failed}

\* C19: a road route whose network fetch failed still succeeds, with the
\* straight-line distance and the two-point path of the fast mode, after
\* one call of itself and no second network fetch.
C19_FetchFailureFallsBackOnce ==
    \A p \in FellBack :
        /\ rcall[p].result.success
        /\ rcall[p].result.distance_km
               = [kind |-> "haversine", from |-> rcall[p].accident,
                  to |-> rcall[p].hospital]
        /\ rcall[p].result.path_coordinates
               = <<rcall[p].hospital, rcall[p].accident>>
        /\ rcall[p].depth = 1
        /\ rcall[p].invoked = 1

\* C19 witness: a fallen-back call has returned while the other caller's
\* road route over a downloaded graph succeeded.
C19_Witness ==
    \E p \in FellBack, q \in Procs :
        /\ rcall[q].op = "route" /\ rcall[q].pc = "done"
        /\ rcall[q].result.success /\ ~rcall[q].result.fast_mode
        /\ rcall[p].result.fast_mode

\* What a handle_accident step does with the candidates whose route failed.
FailedCandidateLeftOut ==
    (response = NoResponse /\ response' # NoResponse) =>
        /\ SomeRouted(hospitals') => response'.success
        /\ response'.success =>
               \A i \in 1 .. Len(hospitals') :
                   ~hospitals'[i].route_success =>
                       LET n == hospitals'[i].hospital_name
                           r == response'
                       IN /\ r.selected_hospital.name # n
                          /\ \A k \in 1 .. Len(r.alternative_hospitals) :
                                 r.alternative_hospitals[k].name # n
                          /\ \A k \in 1 .. Len(r.log) : r.log[k].name # n
                          /\ SelectId(db, n) = 0 => SelectId(db', n) = 0

\* C21: a candidate whose route computation failed is neither registered
\* nor scored, is not the selected hospital and is not among the
\* alternates, and handle_accident still succeeds when some other candidate
\* was routed.
C21_FailedRouteIsLeftOut == [][FailedCandidateLeftOut]_vars

\* C21 witness: a successful dispatch with alternates over a list whose
\* first candidate, a hospital the store has never seen, was not routed.
C21_Witness ==
    /\ response.returned /\ response.success
    /\ Len(hospitals) = 3
    /\ ~hospitals[1].route_success
    /\ hospitals[2].route_success /\ hospitals[3].route_success
    /\ Len(response.alternative_hospitals) = 1
    /\ SelectId(db, hospitals[1].hospital_name) = 0

\* the hospitals row a registration creates, as far as the rating goes
FreshlyRegistered(row) ==
    /\ row.current_rating = 250
    /\ row.total_cases = 0
    /\ row.successful_outcomes = 0
    /\ row.total_response_time_minutes = 0

\* What a successful handle_accident step leaves in the store for the
\* candidates it scored, and in which order it registered and scored them.
ScoredAreRegistered ==
    (response = NoResponse /\ response' # NoResponse /\ response'.success) =>
        LET log == response'.log
            Scored(n) == [event |-> "combined_score", name |-> n]
            Registered(n) == [event |-> "register_hospital", name |-> n]
        IN /\ \E k \in 1 .. Len(log) : log[k] = Scored(response'.selected_hospital.name)
           /\ \A i \in 1 .. Len(hospitals') :
                  hospitals'[i].route_success =>
                      \E k \in 1 .. Len(log) : log[k] = Scored(hospitals'[i].hospital_name)
           /\ \A k \in 1 .. Len(log) :
                  log[k].event = "combined_score" =>
                      LET n == log[k].name
                      IN /\ \E id \in 1 .. Len(db'.hospitals) : db'.hospitals[id].name = n
                         /\ \A id \in 1 .. Len(db'.hospitals) :
                                (db'.hospitals[id].name = n /\ SelectId(db, n) = 0) =>
                                    /\ FreshlyRegistered(db'.hospitals[id])
                                    /\ \E j \in 1 .. k - 1 : log[j] = Registered(n)

\* C27: after a successful handle_accident every candidate that was scored,
\* the selected hospital among them, has a row under its dataset name; a
\* candidate the store had not seen has a row with rating 2.5 and zero
\* counters, and it was registered before its score was computed.
C27_ScoredCandidatesAreRegistered == [][ScoredAreRegistered]_vars

\* C27 witness: a dispatch over three routed candidates of which the store
\* knew one, with a recorded case, and registered the other two.
C27_Witness ==
    /\ response.returned /\ response.success
    /\ Len(hospitals) = 3
    /\ \A i \in 1 .. 3 : hospitals[i].route_success
    /\ Len(response.log) = 5
    /\ Len(db.hospitals) = 3
    /\ db.hospitals[1].total_cases = 1
    /\ FreshlyRegistered(db.hospitals[2])

(***************************************************************************)
(* Properties of the rating ledger.                                        *)
(***************************************************************************)
\* the row of the hospital named name in database d (name has a row)
RowNamed(d, name) ==
    d.hospitals[CHOOSE i \in 1 .. Len(d.hospitals) : d.hospitals[i].name = name]

HasRow(d, name) == \E i \in 1 .. Len(d.hospitals) : d.hospitals[i].name = name

\* the id under which name is stored in d, which is its position
IdNamed(d, name) == CHOOSE i \in 1 .. Len(d.hospitals) : d.hospitals[i].name = name

\* row is the rating_history row of a change of hospital hid from old to new
IsChange(row, hid, old, new) ==
    /\ row.hospital_id = hid
    /\ row.old_rating = old
    /\ row.new_rating = new

ManualReturnedTrue(p) ==
    /\ call[p].op = "manual"
    /\ call[p].pc = "done"
    /\ call[p].result = "true"

\* C23: a successful update_rating_manually on a registered hospital sets
\* current_rating to the given rating and appends exactly one rating_history
\* row, from the rating before the call to the given one, also when the two
\* are less than 0.1 apart; it leaves total_cases, successful_outcomes,
\* total_response_time_minutes, every other hospital and case_history as
\* they were.
C23_ManualUpdateAlwaysLogged ==
    \A p \in {1} :
        ManualReturnedTrue(p) =>
            LET pre == call[p].pre
                name == call[p].name
                before == RowNamed(pre, name)
                hid == IdNamed(pre, name)
            IN /\ HasRow(pre, name)
               /\ Len(db.hospitals) = Len(pre.hospitals)
               /\ \A i \in 1 .. Len(pre.hospitals) :
                      db.hospitals[i] =
                          IF i = hid
                          THEN [before EXCEPT !.current_rating = call[p].new_rating]
                          ELSE pre.hospitals[i]
               /\ Len(db.rating_history) = Len(pre.rating_history) + 1
               /\ SubSeq(db.rating_history, 1, Len(pre.rating_history))
                      = pre.rating_history
               /\ IsChange(db.rating_history[Len(db.rating_history)], hid,
                           before.current_rating, call[p].new_rating)
               /\ db.case_history = pre.case_history

\* C23 witness: a manual update to the rating the hospital already had, on
\* a hospital with a recorded case.
C23_Witness ==
    /\ ManualReturnedTrue(1)
    /\ HasRow(call[1].pre, call[1].name)
    /\ RowNamed(call[1].pre, call[1].name).current_rating = call[1].new_rating
    /\ RowNamed(call[1].pre, call[1].name).total_cases >= 1

RecordTrue(p) ==
    /\ call[p].op = "record"
    /\ call[p].pc = "done"
    /\ call[p].result = "true"

\* the rating of name before a record_case_outcome call that found database
\* pre: that of its row, or the default of the row the call creates
RatingBefore(pre, name) ==
    IF HasRow(pre, name) THEN RowNamed(pre, name).current_rating ELSE 250

\* C24: a successful record_case_outcome appends a rating_history row if and
\* only if the recomputed rating is at least 0.1 away from the rating before
\* the call; the row goes from the rating before the call to the rating
\* after it, and no call appends more than one.
C24_HistoryIffSignificant ==
    \A p \in {1} :
        RecordTrue(p) =>
            LET pre == call[p].pre
                name == call[p].name
                old == RatingBefore(pre, name)
                new == RowNamed(db, name).current_rating
                n == Len(pre.rating_history)
            IN /\ SubSeq(db.rating_history, 1, n) = pre.rating_history
               /\ IF new - old >= 10 \/ old - new >= 10
                  THEN /\ Len(db.rating_history) = n + 1
                       /\ IsChange(db.rating_history[n + 1], IdNamed(db, name),
                                   old, new)
                  ELSE Len(db.rating_history) = n

\* C24 witness: two recorded cases of one hospital, the first of which
\* changed the rating and the second of which did not.
C24_Witness ==
    /\ RecordTrue(1)
    /\ Len(db.case_history) = 2
    /\ db.case_history[1].hospital_id = db.case_history[2].hospital_id
    /\ Len(db.rating_history) = 1
    /\ call[1].pre.rating_history = db.rating_history

\* C25: in every state of the database every hospital has
\* 0 <= successful_outcomes <= total_cases and
\* total_response_time_minutes >= 0.
C25_CountersInRange ==
    \A i \in 1 .. Len(db.hospitals) :
        /\ 0 <= db.hospitals[i].successful_outcomes
        /\ db.hospitals[i].successful_outcomes <= db.hospitals[i].total_cases
        /\ db.hospitals[i].total_response_time_minutes >= 0

\* C25 witness: two hospitals, one of them with two cases that were both
\* successful and took time.
C25_Witness ==
    /\ Len(db.hospitals) = 2
    /\ \E i \in 1 .. 2 :
           /\ db.hospitals[i].total_cases = 2
           /\ db.hospitals[i].successful_outcomes = 2
           /\ db.hospitals[i].total_response_time_minutes > 0

\* the number of case_history rows of d that reference hospital hid
CasesReferencing(d, hid) ==
    Cardinality({k \in 1 .. Len(d.case_history) : d.case_history[k].hospital_id = hid})

\* the callers whose record_case_outcome for name has returned True
RecordedFor(name) == {p \in Procs : RecordTrue(p) /\ call[p].name = name}

\* C26: no two hospitals share a name; every case_history row references
\* the id of an existing hospital; and the rows that reference a hospital
\* are those of the record_case_outcome calls made with its name, one each,
\* also when the calls for a name the store has not seen run concurrently.
C26_CaseBelongsToNamedHospital ==
    /\ \A i, j \in 1 .. Len(db.hospitals) :
           db.hospitals[i].name = db.hospitals[j].name => i = j
    /\ \A k \in 1 .. Len(db.case_history) :
           db.case_history[k].hospital_id \in 1 .. Len(db.hospitals)
    /\ \A i \in 1 .. Len(db.hospitals) :
           CasesReferencing(db, i) = Cardinality(RecordedFor(db.hospitals[i].name))

\* C26 witness: two record_case_outcome calls for one name, both started on
\* the empty database and both past their lookup before either registered
\* the name, have returned True: one hospital, two cases.
C26_Witness ==
    /\ \A p \in Procs : RecordTrue(p) /\ call[p].pre = EmptyDb
    /\ call[1].name = call[2].name
    /\ Len(db.hospitals) = 1
    /\ Len(db.case_history) = 2

\* What a step may do to the committed ledger: rows are added at the end,
\* and the hospitals keep their ids and names.
LedgerOnlyGrows ==
    /\ Len(db'.case_history) >= Len(db.case_history)
    /\ SubSeq(db'.case_history, 1, Len(db.case_history)) = db.case_history
    /\ Len(db'.rating_history) >= Len(db.rating_history)
    /\ SubSeq(db'.rating_history, 1, Len(db.rating_history)) = db.rating_history
    /\ Len(db'.hospitals) >= Len(db.hospitals)
    /\ \A i \in 1 .. Len(db.hospitals) : db'.hospitals[i].name = db.hospitals[i].name

C29_SearchLeavesGraphAndCache ==
    [][graph' = graph /\ graph_cache' = graph_cache]_vars

\* C29 witness: a search between two nodes of a graph the cache holds has
\* returned a path of three edges.
C29_Witness ==
    /\ pathPc = "done"
    /\ source # target
    /\ Len(path) = 4
    /\ DOMAIN graph # {}
    /\ DOMAIN graph_cache # {}

(***************************************************************************)
(* Properties of the read queries.                                         *)
(***************************************************************************)
TopReturned == view.returned /\ view.op = "get_top_hospitals"

\* the hospitals of the database that get_top_hospitals did not return
Omitted ==
    {i \in 1 .. Len(db.hospitals) :
        \A k \in 1 .. Len(view.result) :
            view.result[k].hospital_name # db.hospitals[i].name}

\* a ranks strictly above b: a higher rating, or the same rating and more
\* cases
RanksAbove(a, b) ==
    \/ a.current_rating > b.current_rating
    \/ a.current_rating = b.current_rating /\ a.total_cases > b.total_cases

\* C22: get_top_hospitals(limit) returns at most limit hospitals, each a
\* different hospital of the database with total_cases > 0 and with its
\* rating and case count, in descending order of rating and, among equal
\* ratings, of total_cases; and no hospital with total_cases > 0 that it
\* leaves out ranks above one it returns.
C22_TopHospitalsOrdered ==
    TopReturned =>
        LET res == view.result
        IN /\ Len(res) <= view.limit
           /\ \A k \in 1 .. Len(res) :
                  /\ res[k].total_cases > 0
                  /\ \E i \in 1 .. Len(db.hospitals) :
                         /\ db.hospitals[i].name = res[k].hospital_name
                         /\ db.hospitals[i].current_rating = res[k].current_rating
                         /\ db.hospitals[i].total_cases = res[k].total_cases
           /\ \A j, k \in 1 .. Len(res) :
                  j < k =>
                      /\ res[j].hospital_name # res[k].hospital_name
                      /\ ~RanksAbove(res[k], res[j])
           /\ \A i \in Omitted :
                  db.hospitals[i].total_cases > 0 =>
                      \A k \in 1 .. Len(res) : ~RanksAbove(db.hospitals[i], res[k])

\* C22 witness: of two hospitals with the same rating, one with two cases
\* and one, registered first, with one case, get_top_hospitals(1) has
\* returned the one with two cases.
C22_Witness ==
    /\ TopReturned
    /\ view.limit = 1
    /\ Len(view.result) = 1
    /\ Len(db.hospitals) = 2
    /\ db.hospitals[1].total_cases = 1
    /\ db.hospitals[2].total_cases = 2
    /\ db.hospitals[1].current_rating = db.hospitals[2].current_rating
    /\ view.result[1].total_cases = 2

RatingReturned == view.returned /\ view.op = "get_hospital_rating"

\* value, in hundredths, is num / den to the two decimals of the view
IsQuotient(value, num, den) ==
    /\ 2 * (value * den - 100 * num) <= den
    /\ 2 * (100 * num - value * den) <= den

\* the sum and the number of the quality scores of the cases of hospital hid
QualitySum(hid) ==
    LET S == {k \in 1 .. Len(db.case_history) : db.case_history[k].hospital_id = hid}
        sum[T \in SUBSET S] ==
            IF T = {} THEN 0
            ELSE LET k == CHOOSE x \in T : TRUE
                 IN db.case_history[k].quality_score + sum[T \ {k}]
    IN <<sum[S], Cardinality(S)>>

\* What a get_hospital_rating step does: the database stays as it is; a
\* name without a row is not found; the view of a hospital with cases has
\* the success rate, the average response time and the mean quality score
\* of its cases.
RatingViewCorrect ==
    (view = NoView /\ view' # NoView /\ view'.op = "get_hospital_rating") =>
        LET v == view'.result
        IN /\ db' = db /\ wr' = wr
           /\ v.found <=> HasRow(db, view'.name)
           /\ (v.found /\ RowNamed(db, view'.name).total_cases > 0) =>
                  LET row == RowNamed(db, view'.name)
                      q == QualitySum(IdNamed(db, view'.name))
                  IN /\ v.current_rating = row.current_rating
                     /\ v.total_cases = row.total_cases
                     /\ v.successful_outcomes = row.successful_outcomes
                     /\ IsQuotient(v.success_rate_percent,
                                   100 * row.successful_outcomes, row.total_cases)
                     /\ IsQuotient(v.average_response_time_minutes,
                                   row.total_response_time_minutes, row.total_cases)
                     /\ IsQuotient(v.average_quality_score, q[1], q[2])

\* C30: get_hospital_rating changes nothing in the store; for a registered
\* hospital its view has success_rate_percent = 100 * successful_outcomes /
\* total_cases, average_response_time_minutes = total_response_time_minutes
\* / total_cases and average_quality_score = the mean quality_score of the
\* hospital's cases, also when that mean is 0; for a name without a row it
\* returns None and registers nothing.
C30_RatingViewIsProjection == [][RatingViewCorrect]_vars

\* A view with average_quality_score 50.0 of a hospital all of whose cases
\* have quality_score 0.
MeanZeroShownAsFifty ==
    /\ RatingReturned
    /\ view.result.found
    /\ view.result.total_cases >= 1
    /\ QualitySum(IdNamed(db, view.name))[1] = 0
    /\ view.result.average_quality_score = 5000

\* Graphs of at most MaxTermEdges edges whose lengths are 0 or 1, cycles and
\* cycles of length 0 among them.
TermGraphs ==
    UNION {[E -> {0, 1}] : E \in {F \in SUBSET Pairs : Cardinality(F) <= MaxTermEdges}}

\* A call of find_shortest_path on such a graph.
InitTerm ==
    /\ graph \in TermGraphs
    /\ source \in Nodes
    /\ target \in Nodes
    /\ forward_dist = <<>> /\ forward_prev = <<>>
    /\ forward_heap = {} /\ forward_visited = {}
    /\ backward_dist = <<>> /\ backward_prev = <<>>
    /\ backward_heap = {} /\ backward_visited = {}
    /\ meeting_point = None /\ min_total_dist = Inf
    /\ pathPc = "start"
    /\ path = NoPath /\ distance = Inf
    /\ StoreInit /\ DispatchIdle /\ SearchedGraphCached

\* The function runs on one thread, which executes its next statement as
\* long as it has one.
SpecTerm == InitTerm /\ [][PathNext]_vars /\ WF_vars(PathNext)

(***************************************************************************)
(* Further properties of find_shortest_path.                               *)
(***************************************************************************)
SearchDone == pathPc = "done"

\* C31: find_shortest_path returns None for the path only when the target
\* cannot be reached from the source: whenever a directed path exists a
\* path is returned, whatever the node ids, a meeting node with id 0
\* included.
C31_NoPathOnlyWhenUnreachable ==
    (SearchDone /\ ReferenceDistance(graph, source, target) < Inf) => path # NoPath

\* The search has returned None although the target is reachable; the only
\* meeting point it found is node 0.
NoPathThoughReachable ==
    /\ SearchDone
    /\ path = NoPath
    /\ ReferenceDistance(graph, source, target) < Inf
    /\ meeting_point = 0

\* the sum of the lengths of the edges along p, Inf when a step of p is no
\* edge of the graph
RECURSIVE LengthAlong(_)
LengthAlong(p) ==
    IF Len(p) <= 1 THEN 0
    ELSE IF <<p[1], p[2]>> \notin DOMAIN graph THEN Inf
    ELSE graph[<<p[1], p[2]>>] + LengthAlong(Tail(p))

\* C32: whenever find_shortest_path returns a path, the distance it returns
\* is the sum of the edge lengths along that path.
C32_DistanceIsLengthOfPath ==
    (SearchDone /\ path # NoPath) => distance = LengthAlong(path)

\* C32 witness: a returned path of three edges, one of them a heavy one.
C32_Witness ==
    /\ SearchDone
    /\ Len(path) = 4
    /\ distance = HeavyLen + 2
    /\ distance = LengthAlong(path)

\* C39: find_shortest_path terminates on every finite graph with
\* non-negative edge lengths, with a path or with None, also on graphs with
\* cycles, with edges of length 0 and with a target that cannot be reached.
C39_SearchTerminates == <>(pathPc = "done")

\* C39 witness: a search from a node on a cycle of two edges of length 0 has
\* returned None for a target that cannot be reached.
C39_Witness ==
    /\ pathPc = "done"
    /\ path = NoPath
    /\ ReferenceDistance(graph, source, target) = Inf
    /\ \E v \in Nodes :
           /\ <<source, v>> \in DOMAIN graph /\ <<v, source>> \in DOMAIN graph
           /\ graph[<<source, v>>] = 0 /\ graph[<<v, source>>] = 0

(***************************************************************************)
(* Further properties of the rating ledger.                                *)
(***************************************************************************)
\* the positions of the rating_history rows of hospital hid
ChangesOf(hid) ==
    {k \in 1 .. Len(db.rating_history) : db.rating_history[k].hospital_id = hid}

\* C33: in every state reached by register, record_case_outcome and
\* update_rating_manually calls, a hospital with a rating_history row has
\* the new_rating of its latest row as its current_rating, and a hospital
\* without one has current_rating 2.5.
C33_RatingChangesAudited ==
    \A i \in 1 .. Len(db.hospitals) :
        IF ChangesOf(i) = {}
        THEN db.hospitals[i].current_rating = 250
        ELSE LET last == CHOOSE k \in ChangesOf(i) : \A j \in ChangesOf(i) : j <= k
             IN db.hospitals[i].current_rating = db.rating_history[last].new_rating

\* A hospital whose current_rating is not the new_rating of its latest
\* rating_history row: the row is that of a manual update, and the outcome
\* recorded after it moved the rating by less than 0.1.
UnauditedChange ==
    /\ RecordTrue(1)
    /\ \E i \in 1 .. Len(db.hospitals) :
           /\ ChangesOf(i) # {}
           /\ LET last == CHOOSE k \in ChangesOf(i) : \A j \in ChangesOf(i) : j <= k
                  row == db.rating_history[last]
              IN /\ row.reason = "Manual update"
                 /\ db.hospitals[i].current_rating # row.new_rating
                 /\ db.hospitals[i].current_rating - row.new_rating < 10
                 /\ row.new_rating - db.hospitals[i].current_rating < 10

\* the positions of the case_history rows of hospital hid
CaseRowsOf(hid) ==
    {k \in 1 .. Len(db.case_history) : db.case_history[k].hospital_id = hid}

\* the sum of response_time_minutes over the case_history rows at positions S
RECURSIVE MinutesOver(_)
MinutesOver(S) ==
    IF S = {} THEN 0
    ELSE LET k == CHOOSE x \in S : TRUE
         IN db.case_history[k].response_time_minutes + MinutesOver(S \ {k})

\* C34: in every committed state, for every hospital, total_cases is the
\* number of its case_history rows, successful_outcomes the number of those
\* with patient_outcome 'successful', and total_response_time_minutes the
\* sum of their response_time_minutes.
C34_CountersMatchCases ==
    \A i \in 1 .. Len(db.hospitals) :
        LET h == db.hospitals[i]
        IN /\ h.total_cases = Cardinality(CaseRowsOf(i))
           /\ h.successful_outcomes =
                  Cardinality({k \in CaseRowsOf(i) :
                                  db.case_history[k].patient_outcome = "successful"})
           /\ h.total_response_time_minutes = MinutesOver(CaseRowsOf(i))

\* C34 witness: two concurrent record_case_outcome calls for one hospital
\* have both committed, one outcome successful and one not, each with a
\* response time.
C34_Witness ==
    /\ \A p \in Procs : RecordTrue(p)
    /\ call[1].name = call[2].name
    /\ call[1].outcome = "successful" /\ call[2].outcome = "unsuccessful"
    /\ call[1].response = 150 /\ call[2].response = 150
    /\ Len(db.case_history) = 2

\* the rating record_case_outcome computes from case_history rows alone:
\* rows are the rows of one hospital
RatingFromCases(rows) ==
    LET n == Len(rows)
        s == Cardinality({k \in 1 .. n : rows[k].patient_outcome = "successful"})
        sumq[k \in 0 .. n] == IF k = 0 THEN 0 ELSE rows[k].quality_score + sumq[k - 1]
        sumr[k \in 0 .. n] ==
            IF k = 0 THEN 0 ELSE rows[k].response_time_minutes + sumr[k - 1]
        q == IF sumq[n] = 0 THEN <<50, 1>> ELSE <<sumq[n], n>>
        r == IF sumr[n] = 0 THEN <<60, 1>> ELSE <<sumr[n], n>>
    IN CalculateNewRating(n, s, q[1], q[2], r[1], r[2])

\* C35: the current_rating after a successful record_case_outcome is a
\* function of the hospital's case_history rows alone; the manual updates
\* made before it leave no trace in it.
C35_OverrideDoesNotSurvive ==
    \A p \in {1} :
        RecordTrue(p) =>
            RowNamed(db, call[p].name).current_rating =
                RatingFromCases(CasesOf(db.case_history, IdNamed(db, call[p].name)))

\* C35 witness: a successful record_case_outcome on a hospital whose rating
\* had been set by hand to 7.0.
C35_Witness ==
    /\ RecordTrue(1)
    /\ HasRow(call[1].pre, call[1].name)
    /\ RowNamed(call[1].pre, call[1].name).current_rating = 700
    /\ RowNamed(db, call[1].name).current_rating < 700

ManualDone(p) == call[p].op = "manual" /\ call[p].pc = "done"

\* C38: update_rating_manually with a name that has no row returns False and
\* leaves the store as it was: no hospital is registered, no rating set and
\* no rating_history row written.
C38_ManualOnUnknownName ==
    \A p \in {1} :
        (ManualDone(p) /\ ~HasRow(call[p].pre, call[p].name)) =>
            /\ call[p].result = "false"
            /\ db = call[p].pre

\* C38 witness: a manual update for a name without a row has returned, in a
\* store that holds another hospital with a case.
C38_Witness ==
    /\ ManualDone(1)
    /\ ~HasRow(call[1].pre, call[1].name)
    /\ Len(db.hospitals) = 1
    /\ Len(db.case_history) = 1

(***************************************************************************)
(* The frame of handle_accident on the rating store.                       *)
(***************************************************************************)
\* What a handle_accident step may do to the store: the rows of the
\* hospitals it finds stay as they are, with both histories; the rows it
\* adds are those of candidates, new and without cases.
OnlyAddsUnseen ==
    (response = NoResponse /\ response' # NoResponse) =>
        /\ db'.case_history = db.case_history
        /\ db'.rating_history = db.rating_history
        /\ Len(db'.hospitals) >= Len(db.hospitals)
        /\ \A i \in 1 .. Len(db.hospitals) :
               LET a == db.hospitals[i]
                   b == db'.hospitals[i]
               IN /\ b.name = a.name
                  /\ b.current_rating = a.current_rating
                  /\ b.total_cases = a.total_cases
                  /\ b.successful_outcomes = a.successful_outcomes
                  /\ b.total_response_time_minutes = a.total_response_time_minutes
        /\ \A i \in (Len(db.hospitals) + 1) .. Len(db'.hospitals) :
               /\ ~HasRow(db, db'.hospitals[i].name)
               /\ \E k \in 1 .. Len(hospitals') :
                      hospitals'[k].hospital_name = db'.hospitals[i].name
               /\ FreshlyRegistered(db'.hospitals[i])

\* C37: handle_accident leaves the rating, the counters, the case_history
\* rows and the rating_history rows of every hospital the store already
\* holds as they were; all it does to the store is add rows for names the
\* store had not seen.
C37_DispatchKeepsPerformanceData == [][OnlyAddsUnseen]_vars

\* C37 witness: a dispatch that selected a hospital the store already held
\* with a case and a rating other than 2.5, and registered another one.
C37_Witness ==
    /\ response.returned /\ response.success
    /\ Len(db.case_history) = 1
    /\ Len(db.hospitals) = 2
    /\ db.hospitals[1].current_rating # 250
    /\ response.selected_hospital.name = db.hospitals[1].name
    /\ response.selected_hospital.total_cases = 1

(***************************************************************************)
(* get_hospital_rating beside concurrent record_case_outcome calls.        *)
(***************************************************************************)
\* view v shows the hospital named name as database d holds it
ShowsStateOf(v, d, name) ==
    /\ HasRow(d, name)
    /\ v.current_rating = HospitalRating(d, name).current_rating
    /\ v.total_cases = HospitalRating(d, name).total_cases
    /\ v.successful_outcomes = HospitalRating(d, name).successful_outcomes
    /\ v.average_quality_score = HospitalRating(d, name).average_quality_score

\* The view a get_hospital_rating returns is that of one committed state:
\* the one its first SELECT read or the one its second SELECT read.  (A
\* state committed between the two has a total_cases of its own, or shows
\* the hospital as the first does.)
ViewOfOneState ==
    (~view.returned /\ view'.returned /\ view'.result.found) =>
        \/ ShowsStateOf(view'.result, view.seen, view.name)
        \/ ShowsStateOf(view'.result, db, view.name)

\* C36: a get_hospital_rating that runs beside record_case_outcome calls on
\* the same hospital returns current_rating, total_cases,
\* successful_outcomes and average_quality_score of one single committed
\* state, never some of the state before a commit and some of the state
\* after it.
C36_ConsistentSnapshot == [][ViewOfOneState]_vars

\* A returned view with the counters of the state before a commit (one
\* case) and the average quality of the state after it (the mean of two
\* cases).
MixedSnapshot ==
    /\ view.returned /\ view.op = "get_hospital_rating" /\ view.result.found
    /\ view.result.total_cases = 1
    /\ HospitalRating(view.seen, view.name).average_quality_score = 10000
    /\ view.result.average_quality_score = 5000
    /\ Len(db.case_history) = 2

=============================================================================
